---- MODULE Spec2Model ----
(***************************************************************************)
(* Model of the request handlers of the SaaS reference application:        *)
(*   - the /data handler of backend/src/lambda/data/index.ts  ("dataV1"),  *)
(*   - the /data handler variant of src/unnamed/part_001      ("dataV2"),  *)
(*   - the /images handler appended to backend/lib/database-stack.ts       *)
(*     ("images"),                                                         *)
(* and of the group normalisation of the login form (Login.tsx).           *)
(*                                                                         *)
(* JavaScript values are records tagged by their type.  A string is a      *)
(* sequence of tokens: the token "Admin" stands for the five characters    *)
(* A-d-m-i-n, the token "admin" for its lower-case spelling, "," and " "   *)
(* for themselves and "s" for any other character.  No token other than    *)
(* "Admin" contains a character of the word, so that a substring search    *)
(* for 'Admin' is a search for the token.                                  *)
(***************************************************************************)
EXTENDS Integers, Sequences, FiniteSets, TLC

(***************************************************************************)
(* The state of an invocation, per function instance:                      *)
(*   pc          position of the handler (index.ts 50-364)                 *)
(*   kind        which function the gateway invoked (main.ts 338-367)      *)
(*   event       the inbound event (index.ts 50-52)                        *)
(*   userGroups, userEmail, userId, isAdmin   the locals of index.ts 60-64 *)
(*   secret      outcome of secretsManager.getSecretValue (index.ts 21-23) *)
(*   dbConfig    the result of getDatabaseConfig (index.ts 70)             *)
(*   client      the pg client: null, created, connected, ended (55, 73)   *)
(*   endCalls    number of client.end() calls (index.ts 357)               *)
(*   attempts    number of primary fetches begun: clients constructed and  *)
(*               connected (index.ts 73-74), listings sent (stack 169)     *)
(*   fetch       outcome of the inner try: none, ok, failed                *)
(*   thrown      the call whose exception was caught, if any               *)
(*   table       the rows the queries read (part_002)                      *)
(*   listing     listResult.Contents (database-stack.ts 169)               *)
(*   resp        the APIGatewayProxyResult returned                        *)
(*   env         process.env of the instance (index.ts 18, 28-30, 40-44)   *)
(*   secretString  the parsed secret.SecretString, if read (index.ts 25)   *)
(*   signFailed  index, among the listed objects, of the getSignedUrl      *)
(*               call that rejected; 0 when none did (stack 185)           *)
(* and of the browser, one record per React component:                     *)
(*   login       the state of Login (Login.tsx 14-21) and what it handed   *)
(*               to the identity provider and to onLogin                   *)
(*   app         the state of App (App.tsx 15-16) and localStorage         *)
(*   dash        the state of Dashboard (Dashboard.tsx 53-60) and the      *)
(*               position and requests of its fetchData call               *)
(***************************************************************************)
VARIABLES pc, kind, event, userGroups, userEmail, userId, isAdmin,
          secret, dbConfig, client, endCalls, attempts, fetch, thrown,
          table, listing, resp, env, secretString, signFailed,
          login, app, dash

vars == <<pc, kind, event, userGroups, userEmail, userId, isAdmin,
          secret, dbConfig, client, endCalls, attempts, fetch, thrown,
          table, listing, resp, env, secretString, signFailed,
          login, app, dash>>

(***************************************************************************)
(* Bounds of the model.                                                    *)
(***************************************************************************)
MaxStrLen == 2

MaxListLen == 2

MaxRows == 11

MaxObjects == 4

MaxTime == 2

MaxRun == 4

Instances == {1, 2}

SeqInstances == {1}

Times == 1..MaxTime

(***************************************************************************)
(* Program constants.                                                      *)
(***************************************************************************)
AdminLimit == 10

StandardLimit == 3

StandardImages == 3

SignedUrlTtl == 3600

MinPasswordLength == 8

AllowedCategories == {"Electronics", "Audio", "Home"}

Categories == <<"Electronics", "Audio", "Wearables", "Home", "Accessories">>

BucketName == "image-bucket"

(***************************************************************************)
(* JavaScript values.                                                      *)
(***************************************************************************)
Undefined == [t |-> "undefined"]

Null == [t |-> "null"]

Str(s) == [t |-> "string", s |-> s]

Arr(a) == [t |-> "array", a |-> a]

Num(n) == [t |-> "number", n |-> n]

Bool(b) == [t |-> "boolean", b |-> b]

Obj == [t |-> "object"]

\* a property that is set to v, or missing
Maybe(v) == {Undefined, v}

Truthy(v) ==
  CASE v.t = "undefined" -> FALSE
    [] v.t = "null" -> FALSE
    [] v.t = "string" -> v.s # <<>>
    [] v.t = "number" -> v.n # 0
    [] v.t = "boolean" -> v.b
    [] OTHER -> TRUE

\* a || b
OrElse(a, b) == IF Truthy(a) THEN a ELSE b

Min(a, b) == IF a <= b THEN a ELSE b

\* Array.prototype.slice(0, n)
Slice0(s, n) == SubSeq(s, 1, Min(n, Len(s)))

(***************************************************************************)
(* Strings as token sequences.                                             *)
(***************************************************************************)
Tok == {"Admin", "s", ",", " "}

AdminWord == <<"Admin">>

SeqsUpTo(S, n) == UNION {[1..k -> S] : k \in 0..n}

\* String.prototype.includes('Admin'): a substring search
StrIncludesAdmin(s) == \E k \in 1..Len(s) : s[k] = "Admin"

\* Array.prototype.includes('Admin'): strict equality with an element
ArrIncludesAdmin(a) == \E k \in 1..Len(a) : a[k] = AdminWord

RECURSIVE Split(_)
\* String.prototype.split(',')
Split(s) ==
  IF \A k \in 1..Len(s) : s[k] # ","
  THEN <<s>>
  ELSE LET k == CHOOSE k \in 1..Len(s) :
                  s[k] = "," /\ \A j \in 1..(k - 1) : s[j] # ","
       IN <<SubSeq(s, 1, k - 1)>> \o Split(SubSeq(s, k + 1, Len(s)))

RECURSIVE Trim(_)
\* String.prototype.trim()
Trim(s) ==
  IF s = <<>> THEN s
  ELSE IF s[1] = " " THEN Trim(Tail(s))
  ELSE IF s[Len(s)] = " " THEN Trim(SubSeq(s, 1, Len(s) - 1))
  ELSE s

\* String(v) of a value that is neither a string nor an array
ToStr(v) ==
  CASE v.t = "number" -> <<"s">>
    [] v.t = "boolean" -> <<"s", "s">>
    [] OTHER -> <<"s", " ", "s">>

(***************************************************************************)
(* Inbound events.                                                         *)
(***************************************************************************)
GroupNames == {<<"Admin">>, <<"admin">>, <<"Admin", "s">>}

GroupStrings ==
  SeqsUpTo(Tok, MaxStrLen)
    \cup {<<"Admin", ",", " ", "s">>, <<"s", ",", " ", "Admin">>, <<"admin">>}

GroupClaims ==
  {Str(s) : s \in GroupStrings}
    \cup {Arr(a) : a \in SeqsUpTo(GroupNames, MaxListLen)}
    \cup {Undefined, Null, Num(0), Num(42), Bool(FALSE), Bool(TRUE), Obj}

AliceEmail == Str(<<"alice@example.com">>)

AliceSub == Str(<<"sub-alice">>)

Events ==
  {[shape |-> "claims", groups |-> g, email |-> AliceEmail, sub |-> AliceSub] :
       g \in GroupClaims}
    \cup {[shape |-> sh, groups |-> Undefined, email |-> Undefined, sub |-> Undefined] :
       sh \in {"noRequestContext", "noAuthorizer", "noClaims"}}

NoEvent == [shape |-> "none", groups |-> Undefined, email |-> Undefined, sub |-> Undefined]

\* event.requestContext?.authorizer?.claims || {}
AuthContext(e) ==
  IF e.shape = "claims"
  THEN [groups |-> e.groups, email |-> e.email, sub |-> e.sub]
  ELSE [groups |-> Undefined, email |-> Undefined, sub |-> Undefined]

\* authContext['cognito:groups'] || ''
UserGroupsOf(e) == OrElse(AuthContext(e).groups, Str(<<>>))

UserEmailOf(e) == OrElse(AuthContext(e).email, Str(<<"user@example.com">>))

UserIdOf(e) == OrElse(AuthContext(e).sub, Str(<<"anonymous">>))

\* userGroups.includes is a function only of a string or of an array
HasIncludes(g) == g.t \in {"string", "array"}

\* userGroups.includes('Admin')
HandlerIsAdmin(g) ==
  CASE g.t = "string" -> StrIncludesAdmin(g.s)
    [] g.t = "array" -> ArrIncludesAdmin(g.a)
    [] OTHER -> FALSE

\* Login.handleLogin: the normalisation of payload['cognito:groups']
LoginGroups(groupsRaw) ==
  CASE groupsRaw.t = "array" -> groupsRaw.a
    [] groupsRaw.t = "string" ->
         LET parts == Split(groupsRaw.s)
         IN [k \in 1..Len(parts) |-> Trim(parts[k])]
    [] Truthy(groupsRaw) -> <<ToStr(groupsRaw)>>
    [] OTHER -> <<>>

\* Login.handleLogin: groups.includes('Admin')
LoginIsAdmin(groupsRaw) == ArrIncludesAdmin(LoginGroups(groupsRaw))

(***************************************************************************)
(* The system of record: the products and users tables.                    *)
(***************************************************************************)
\* row j of a products table; the rows are stored in insertion order and
\* created_at is a permutation of it
ProductRow(j, inact) ==
  [id |-> j, name |-> j, description |-> j,
   category |-> Categories[((j - 1) % Len(Categories)) + 1],
   price |-> 100 * j, image_key |-> j,
   is_active |-> (inact = 0 \/ j % inact # 0),
   created_at |-> (j * 5) % (MaxRows + 2)]

\* a catalogue of active rows of which only the oldest is in a category a
\* Standard caller may read
CrowdedRow(j) ==
  LET r == ProductRow(j, 0)
      oldest == \A k \in 1..MaxRows : ProductRow(k, 0).created_at >= r.created_at
  IN [r EXCEPT !.category = IF oldest THEN "Home" ELSE "Wearables"]

CrowdedTable == [j \in 1..MaxRows |-> CrowdedRow(j)]

ProductTables ==
  {[j \in 1..n |-> ProductRow(j, inact)] : n \in 0..MaxRows, inact \in {0, 2, 3}}
    \cup {CrowdedTable}

BobEmail == Str(<<"bob@example.com">>)

UserRow(j, mail, role) ==
  [id |-> j, email |-> mail, user_role |-> role, profile_data |-> j,
   created_at |-> j, updated_at |-> j]

UserTables ==
  {<<>>, <<UserRow(1, BobEmail, "admin"), UserRow(2, AliceEmail, "standard")>>}

Databases == {[products |-> p, users |-> u] : p \in ProductTables, u \in UserTables}

NoDatabase == [products |-> <<>>, users |-> <<>>]

RemoveAt(s, k) == SubSeq(s, 1, k - 1) \o SubSeq(s, k + 1, Len(s))

RECURSIVE OrderByCreatedDesc(_)
\* ORDER BY created_at DESC
OrderByCreatedDesc(rows) ==
  IF rows = <<>> THEN <<>>
  ELSE LET k == CHOOSE k \in 1..Len(rows) :
                  \A j \in 1..Len(rows) : rows[k].created_at >= rows[j].created_at
       IN <<rows[k]>> \o OrderByCreatedDesc(RemoveAt(rows, k))

\* LIMIT n
Limit(rows, n) == SubSeq(rows, 1, Min(n, Len(rows)))

AdminProductColumns(r) ==
  [id |-> r.id, name |-> r.name, description |-> r.description,
   category |-> r.category, price |-> r.price, image_key |-> r.image_key,
   is_active |-> r.is_active, created_at |-> r.created_at]

StandardProductColumns(r) ==
  [id |-> r.id, name |-> r.name, description |-> r.description,
   category |-> r.category, price |-> r.price, image_key |-> r.image_key,
   created_at |-> r.created_at]

\* the admin query without its LIMIT clause
AdminProductsQueryNoLimit(products) ==
  LET hit == OrderByCreatedDesc(SelectSeq(products, LAMBDA r : r.is_active))
  IN [k \in 1..Len(hit) |-> AdminProductColumns(hit[k])]

\* SELECT ... FROM products WHERE is_active = true
\*   ORDER BY created_at DESC LIMIT 10
AdminProductsQuery(products) ==
  LET hit == Limit(OrderByCreatedDesc(
                SelectSeq(products, LAMBDA r : r.is_active)), AdminLimit)
  IN [k \in 1..Len(hit) |-> AdminProductColumns(hit[k])]

\* the Standard read without the is_active condition
StandardProductsQueryInactive(products) ==
  LET hit == Limit(OrderByCreatedDesc(
                SelectSeq(products, LAMBDA r : r.category \in AllowedCategories)),
                StandardLimit)
  IN [k \in 1..Len(hit) |-> StandardProductColumns(hit[k])]

\* SELECT ... FROM products WHERE is_active = true
\*   AND category IN ('Electronics', 'Audio', 'Home')
\*   ORDER BY created_at DESC LIMIT 3
StandardProductsQuery(products) ==
  LET hit == Limit(OrderByCreatedDesc(
                SelectSeq(products,
                  LAMBDA r : r.is_active /\ r.category \in AllowedCategories)),
                StandardLimit)
  IN [k \in 1..Len(hit) |-> StandardProductColumns(hit[k])]

UserColumns(r) ==
  [id |-> r.id, email |-> r.email, role |-> r.user_role,
   profile_data |-> r.profile_data, created_at |-> r.created_at,
   updated_at |-> r.updated_at]

\* SELECT ... FROM users ORDER BY created_at DESC
AdminUsersQuery(users) ==
  LET hit == OrderByCreatedDesc(users)
  IN [k \in 1..Len(hit) |-> UserColumns(hit[k])]

\* the Standard read of the users table without the WHERE condition
StandardUserQueryAnyRow(users, mail) ==
  LET hit == Limit(users, 1)
  IN [k \in 1..Len(hit) |-> UserColumns(hit[k])]

\* SELECT ... FROM users WHERE email = $1 LIMIT 1
StandardUserQuery(users, mail) ==
  LET hit == Limit(SelectSeq(users, LAMBDA r : r.email = mail), 1)
  IN [k \in 1..Len(hit) |-> UserColumns(hit[k])]

(***************************************************************************)
(* getDatabaseConfig: the secret, with the environment in front of it.     *)
(***************************************************************************)
\* the environment the stack gives the data function
DeployedEnv ==
  [DB_ENDPOINT |-> Str(<<"rds-endpoint">>), DB_PORT |-> Str(<<"5432">>),
   DB_NAME |-> Str(<<"saasdb">>), DB_USER |-> Undefined, DB_PASSWORD |-> Undefined]

SecretFailed == [ok |-> FALSE]

StoredSecret ==
  [ok |-> TRUE, host |-> Str(<<"secret-host">>), port |-> Num(5433),
   dbname |-> Str(<<"secretdb">>), username |-> Str(<<"secret-user">>),
   password |-> Str(<<"secret-password">>)]

Secrets == {SecretFailed, StoredSecret}

\* the secret with any of its fields missing, or unreadable
SecretValues ==
  {[ok |-> TRUE, host |-> h, port |-> p, dbname |-> d, username |-> u, password |-> w] :
       h \in Maybe(StoredSecret.host), p \in Maybe(StoredSecret.port),
       d \in Maybe(StoredSecret.dbname), u \in Maybe(StoredSecret.username),
       w \in Maybe(StoredSecret.password)}
    \cup {SecretFailed}

\* the environment with any of the five variables set or not
Envs ==
  {[DB_ENDPOINT |-> h, DB_PORT |-> p, DB_NAME |-> d, DB_USER |-> u, DB_PASSWORD |-> w] :
       h \in Maybe(DeployedEnv.DB_ENDPOINT), p \in Maybe(DeployedEnv.DB_PORT),
       d \in Maybe(DeployedEnv.DB_NAME), u \in Maybe(Str(<<"env-user">>)),
       w \in Maybe(Str(<<"env-password">>))}

\* parseInt of a port given as a number or as a decimal string
ParseInt(v) ==
  CASE v.t = "number" -> v.n
    [] v = Str(<<"5432">>) -> 5432
    [] v = Str(<<"5433">>) -> 5433
    [] OTHER -> -1

\* a resolution that prefers the secret to the environment for every
\* parameter
GetDatabaseConfigSecretFirst(procEnv, sec) ==
  IF sec.ok
  THEN [host |-> OrElse(sec.host, procEnv.DB_ENDPOINT),
        port |-> ParseInt(OrElse(sec.port, OrElse(procEnv.DB_PORT, Str(<<"5432">>)))),
        database |-> OrElse(sec.dbname, OrElse(procEnv.DB_NAME, Str(<<"saasdb">>))),
        user |-> OrElse(sec.username, OrElse(procEnv.DB_USER, Str(<<"saasadmin">>))),
        password |-> OrElse(sec.password, OrElse(procEnv.DB_PASSWORD, Str(<<>>)))]
  ELSE [host |-> OrElse(procEnv.DB_ENDPOINT, Str(<<"localhost">>)),
        port |-> ParseInt(OrElse(procEnv.DB_PORT, Str(<<"5432">>))),
        database |-> OrElse(procEnv.DB_NAME, Str(<<"saasdb">>)),
        user |-> OrElse(procEnv.DB_USER, Str(<<"saasadmin">>)),
        password |-> OrElse(procEnv.DB_PASSWORD, Str(<<>>))]

GetDatabaseConfig(procEnv, sec) ==
  IF sec.ok
  THEN [host |-> OrElse(procEnv.DB_ENDPOINT, sec.host),
        port |-> ParseInt(OrElse(procEnv.DB_PORT, OrElse(sec.port, Str(<<"5432">>)))),
        database |-> OrElse(procEnv.DB_NAME, OrElse(sec.dbname, Str(<<"saasdb">>))),
        user |-> OrElse(sec.username, Str(<<"saasadmin">>)),
        password |-> OrElse(sec.password, Str(<<>>))]
  ELSE [host |-> OrElse(procEnv.DB_ENDPOINT, Str(<<"localhost">>)),
        port |-> ParseInt(OrElse(procEnv.DB_PORT, Str(<<"5432">>))),
        database |-> OrElse(procEnv.DB_NAME, Str(<<"saasdb">>)),
        user |-> OrElse(procEnv.DB_USER, Str(<<"saasadmin">>)),
        password |-> OrElse(procEnv.DB_PASSWORD, Str(<<>>))]

NoConfig ==
  [host |-> Undefined, port |-> 0, database |-> Undefined, user |-> Undefined,
   password |-> Undefined]

(***************************************************************************)
(* The object store listing and the signing of retrieval URLs.             *)
(***************************************************************************)
ObjectKinds == {"marker", "noKey", "object"}

\* the object at position j of a listing; the prefix marker has the key
\* 'products/', whose last path segment is empty
ObjectAt(j, k) ==
  CASE k = "marker" -> [Key |-> <<"products", "">>, Size |-> 0]
    [] k = "noKey" -> [Size |-> 700 * j]
    [] OTHER -> [Key |-> <<"products", ToString(j)>>, Size |-> 700 * j,
                 LastModified |-> j]

Listings ==
  {[j \in 1..Len(ks) |-> ObjectAt(j, ks[j])] : ks \in SeqsUpTo(ObjectKinds, MaxObjects)}

MarkerKey == <<"products", "">>

\* .filter(obj => obj.Key && obj.Key !== 'products/')
ListedObjects(contents) ==
  SelectSeq(contents, LAMBDA obj : "Key" \in DOMAIN obj /\ obj.Key # MarkerKey)

\* getSignedUrl(s3Client, new GetObjectCommand({Bucket, Key}), {expiresIn: 3600})
GetSignedUrl(bucket, key) ==
  [bucket |-> bucket, key |-> key, expiresIn |-> SignedUrlTtl]

\* obj.Key?.split('/').pop() || 'image.jpg'
ImageName(obj) ==
  IF obj.Key[Len(obj.Key)] = "" THEN "image.jpg" ELSE obj.Key[Len(obj.Key)]

\* obj.Size ? `${Math.round(obj.Size / 1024)} KB` : 'Unknown'
ImageSize(obj) ==
  IF obj.Size # 0 THEN ToString((obj.Size + 512) \div 1024) ELSE "Unknown"

\* obj.LastModified?.toISOString().split('T')[0] || today
ImageUploaded(obj, now) ==
  IF "LastModified" \in DOMAIN obj THEN obj.LastModified ELSE now

\* the .map callback of the handler, index counted from 0
ImageOf(obj, index, now) ==
  [id |-> index + 1, name |-> ImageName(obj),
   url |-> GetSignedUrl(BucketName, obj.Key), category |-> "Products",
   size |-> ImageSize(obj), uploaded |-> ImageUploaded(obj, now),
   description |-> index + 1]

\* a mapping that numbers the objects before the filter is applied
LiveImagesMapThenFilter(contents, now) ==
  LET kept == SelectSeq([p \in 1..Len(contents) |-> p],
                        LAMBDA p : "Key" \in DOMAIN contents[p]
                                   /\ contents[p].Key # MarkerKey)
  IN [k \in 1..Len(kept) |-> ImageOf(contents[kept[k]], kept[k] - 1, now)]

LiveImages(contents, now) ==
  LET objs == ListedObjects(contents)
  IN [k \in 1..Len(objs) |-> ImageOf(objs[k], k - 1, now)]

\* a truncation that keeps the last three images: images.slice(-3)
FilteredImagesLast(images, admin) ==
  IF admin THEN images
  ELSE SubSeq(images, Len(images) - Min(StandardImages, Len(images)) + 1, Len(images))

\* isAdmin ? images : images.slice(0, 3)
FilteredImages(images, admin) == IF admin THEN images ELSE Slice0(images, StandardImages)

(***************************************************************************)
(* The fallback datasets.                                                  *)
(***************************************************************************)
FallbackImageList ==
  << [id |-> 1, name |-> "laptop.jpg", url |-> "unsplash-1499951360447",
      category |-> "Electronics", size |-> "45 KB", uploaded |-> "2024-01-15",
      description |-> "Laptop Pro"],
     [id |-> 2, name |-> "headphones.jpg", url |-> "unsplash-1505740420928",
      category |-> "Audio", size |-> "32 KB", uploaded |-> "2024-01-14",
      description |-> "Wireless Headphones"],
     [id |-> 3, name |-> "smartwatch.jpg", url |-> "unsplash-1523275335684",
      category |-> "Wearables", size |-> "28 KB", uploaded |-> "2024-01-13",
      description |-> "Smart Watch"],
     [id |-> 4, name |-> "speaker.jpg", url |-> "unsplash-1546435770",
      category |-> "Audio", size |-> "38 KB", uploaded |-> "2024-01-12",
      description |-> "Bluetooth Speaker"],
     [id |-> 5, name |-> "camera.jpg", url |-> "unsplash-1516035069371",
      category |-> "Electronics", size |-> "42 KB", uploaded |-> "2024-01-11",
      description |-> "Digital Camera"] >>

\* a fallback slice that starts at the second record: fallback.slice(1, 4)
getFallbackImagesShifted(admin) ==
  IF admin THEN FallbackImageList
  ELSE SubSeq(FallbackImageList, 2, StandardImages + 1)

getFallbackImages(admin) ==
  IF admin THEN FallbackImageList ELSE Slice0(FallbackImageList, StandardImages)

\* a fallback that hands the Admin list to every caller
FallbackProductsV1Full(admin) ==
  << [id |-> 1, name |-> "Laptop Pro", description |-> "High-performance laptop",
      category |-> "Electronics", price |-> 129999,
      image_key |-> "products/laptop-pro.jpg"],
     [id |-> 2, name |-> "Wireless Headphones",
      description |-> "Noise-cancelling headphones",
      category |-> "Audio", price |-> 24999,
      image_key |-> "products/headphones.jpg"],
     [id |-> 3, name |-> "Smart Watch", description |-> "Fitness and health tracker",
      category |-> "Electronics", price |-> 29999,
      image_key |-> "products/smart-watch.jpg"] >>

\* index.ts: the products of the two fallback bodies; prices in cents
FallbackProductsV1(admin) ==
  IF admin
  THEN << [id |-> 1, name |-> "Laptop Pro", description |-> "High-performance laptop",
           category |-> "Electronics", price |-> 129999,
           image_key |-> "products/laptop-pro.jpg"],
          [id |-> 2, name |-> "Wireless Headphones",
           description |-> "Noise-cancelling headphones",
           category |-> "Audio", price |-> 24999,
           image_key |-> "products/headphones.jpg"],
          [id |-> 3, name |-> "Smart Watch", description |-> "Fitness and health tracker",
           category |-> "Electronics", price |-> 29999,
           image_key |-> "products/smart-watch.jpg"] >>
  ELSE << [id |-> 2, name |-> "Wireless Headphones",
           description |-> "Noise-cancelling headphones",
           category |-> "Audio", price |-> 24999,
           image_key |-> "products/headphones.jpg"] >>

FallbackUsersV1(now) ==
  << [id |-> "1", email |-> "admin@saas-application.com", role |-> "admin",
      profile_data |-> "Admin User", created_at |-> now],
     [id |-> "2", email |-> "user@saas-application.com", role |-> "standard",
      profile_data |-> "Standard User", created_at |-> now] >>

\* part_001: fallbackProducts; ids and prices are strings here
FallbackProductsV2(admin, now) ==
  IF admin
  THEN << [id |-> "1", name |-> "Laptop Pro", description |-> "High-performance laptop",
           category |-> "Electronics", price |-> "1299.99",
           image_key |-> "products/laptop.jpg", is_active |-> TRUE,
           created_at |-> now],
          [id |-> "2", name |-> "Wireless Headphones",
           description |-> "Noise-cancelling headphones",
           category |-> "Audio", price |-> "249.99",
           image_key |-> "products/headphones.jpg", is_active |-> TRUE,
           created_at |-> now],
          [id |-> "3", name |-> "Smart Watch", description |-> "Fitness and health tracker",
           category |-> "Electronics", price |-> "299.99",
           image_key |-> "products/smartwatch.jpg", is_active |-> TRUE,
           created_at |-> now] >>
  ELSE << [id |-> "2", name |-> "Wireless Headphones",
           description |-> "Noise-cancelling headphones",
           category |-> "Audio", price |-> "249.99",
           image_key |-> "products/headphones.jpg", created_at |-> now] >>

(***************************************************************************)
(* The responses.                                                          *)
(***************************************************************************)
\* index.ts writes its headers inline, with a boolean Allow-Credentials
InlineHeaders ==
  [ContentType |-> "application/json", AllowOrigin |-> "*",
   AllowCredentials |-> TRUE]

corsHeaders ==
  [ContentType |-> "application/json", AllowOrigin |-> "*",
   AllowCredentials |-> "true",
   AllowHeaders |-> "Content-Type,Authorization,X-Amz-Date,X-Api-Key,X-Amz-Security-Token",
   AllowMethods |-> "GET,OPTIONS"]

HeadersOf(k) == IF k = "dataV1" THEN InlineHeaders ELSE corsHeaders

RoleOf(admin) == IF admin THEN "admin" ELSE "standard"

\* an access level that does not follow the decision
AccessLevelAlwaysFull(admin) == "full"

AccessLevelOf(admin) == IF admin THEN "full" ELSE "limited"

UserBlock(id, mail, groups, admin) ==
  [id |-> id, email |-> mail, role |-> RoleOf(admin), groups |-> groups]

\* index.ts lines 113-140 and 178-212
LiveDataBodyV1(admin, id, mail, groups, db, now) ==
  IF admin
  THEN LET users == AdminUsersQuery(db.users)
           products == AdminProductsQuery(db.products)
       IN [user |-> UserBlock(id, mail, groups, TRUE),
           users |-> users,
           products |-> products,
           metadata |-> [totalUsers |-> Len(users), totalProducts |-> Len(products),
                         isAdmin |-> TRUE, accessLevel |-> "full", timestamp |-> now],
           message |-> "Admin access - Full database access"]
  ELSE LET rows == StandardUserQuery(db.users, mail)
           products == StandardProductsQuery(db.products)
           userData == IF rows # <<>> THEN rows[1]
                       ELSE [id |-> id, email |-> mail, role |-> "standard",
                             profile_data |-> "Standard User", created_at |-> now]
       IN [user |-> UserBlock(id, mail, groups, FALSE),
           userProfile |-> userData,
           products |-> products,
           metadata |-> [totalProducts |-> Len(products), isAdmin |-> FALSE,
                         accessLevel |-> "limited", timestamp |-> now],
           message |-> "Standard access - Limited data access"]

\* index.ts lines 225-335
FallbackDataBodyV1(admin, id, mail, groups, now) ==
  IF admin
  THEN [user |-> UserBlock(id, mail, groups, TRUE),
        users |-> FallbackUsersV1(now),
        products |-> FallbackProductsV1(TRUE),
        metadata |-> [totalUsers |-> 2, totalProducts |-> 3, isAdmin |-> TRUE,
                      accessLevel |-> "full", timestamp |-> now,
                      note |-> "Using fallback mock data"],
        message |-> "Admin access - Fallback data (database unavailable)"]
  ELSE [user |-> UserBlock(id, mail, groups, FALSE),
        userProfile |-> [id |-> id, email |-> mail, role |-> "standard",
                         profile_data |-> "Standard User", created_at |-> now],
        products |-> FallbackProductsV1(FALSE),
        metadata |-> [totalProducts |-> 1, isAdmin |-> FALSE,
                      accessLevel |-> "limited", timestamp |-> now,
                      note |-> "Using fallback mock data"],
        message |-> "Standard access - Fallback data (database unavailable)"]

\* part_001 lines 100-115 and 142-157
LiveDataBodyV2(admin, id, mail, groups, db, now) ==
  LET products == IF admin THEN AdminProductsQuery(db.products)
                  ELSE StandardProductsQuery(db.products)
  IN [user |-> UserBlock(id, mail, groups, admin),
      products |-> products,
      metadata |-> [totalProducts |-> Len(products), isAdmin |-> admin,
                    accessLevel |-> AccessLevelOf(admin), timestamp |-> now],
      message |-> IF admin THEN "Admin access - Full database access"
                  ELSE "Standard access - Limited data access"]

\* part_001 lines 169-197
FallbackDataBodyV2(admin, id, mail, groups, now) ==
  LET fallbackProducts == FallbackProductsV2(admin, now)
  IN [user |-> UserBlock(id, mail, groups, admin),
      products |-> fallbackProducts,
      metadata |-> [totalProducts |-> Len(fallbackProducts), isAdmin |-> admin,
                    accessLevel |-> AccessLevelOf(admin), timestamp |-> now,
                    note |-> "Using fallback data (database unavailable)"],
      message |-> IF admin THEN "Admin access - Fallback data"
                  ELSE "Standard access - Fallback data"]

\* database-stack.ts lines 201-225
LiveImagesBody(admin, mail, groups, contents, now) ==
  LET images == LiveImages(contents, now)
      filteredImages == FilteredImages(images, admin)
  IN [images |-> filteredImages,
      user |-> [email |-> mail, role |-> RoleOf(admin), groups |-> groups],
      metadata |-> [totalImages |-> Len(filteredImages), isAdmin |-> admin,
                    accessLevel |-> AccessLevelOf(admin), timestamp |-> now,
                    source |-> "aws-s3", bucket |-> BucketName],
      message |-> IF admin THEN <<"Full gallery access", Len(images)>>
                  ELSE <<"Standard access", 3>>,
      s3Bucket |-> BucketName]

\* a fallback body that keeps the label of the live one
FallbackImagesBodyLiveLabel(admin, cause) ==
  LET fallbackImages == getFallbackImages(admin)
  IN [images |-> fallbackImages,
      metadata |-> [totalImages |-> Len(fallbackImages), isAdmin |-> admin,
                    source |-> "aws-s3", note |-> <<"S3 access failed", cause>>,
                    bucket |-> BucketName],
      message |-> "Using fallback data"]

\* a fallback body whose images depend on the error: none after a listing
\* that succeeded
FallbackImagesBodyByCause(admin, cause) ==
  LET fallbackImages == IF cause = "sign" THEN <<>> ELSE getFallbackImages(admin)
  IN [images |-> fallbackImages,
      metadata |-> [totalImages |-> Len(fallbackImages), isAdmin |-> admin,
                    source |-> "fallback", note |-> <<"S3 access failed", cause>>,
                    bucket |-> BucketName],
      message |-> "Using fallback data"]

\* database-stack.ts lines 231-246
FallbackImagesBody(admin, cause) ==
  LET fallbackImages == getFallbackImages(admin)
  IN [images |-> fallbackImages,
      metadata |-> [totalImages |-> Len(fallbackImages), isAdmin |-> admin,
                    source |-> "fallback", note |-> <<"S3 access failed", cause>>,
                    bucket |-> BucketName],
      message |-> "Using fallback data"]

ErrorBody(k, now) ==
  IF k = "images"
  THEN [error |-> "Internal server error",
        message |-> "userGroups.includes is not a function", timestamp |-> now,
        bucket |-> BucketName, region |-> "us-east-2"]
  ELSE [error |-> "Internal server error",
        message |-> "userGroups.includes is not a function", timestamp |-> now]

Response(status, headers, body) ==
  [statusCode |-> status, headers |-> headers, body |-> body]

NoResponse == Response(0, [none |-> TRUE], [none |-> TRUE])

(***************************************************************************)
(* The browser: the values of the Login form.                              *)
(***************************************************************************)
\* an e-mail address is a sequence of words; "ADMIN" and "Admin" differ
\* from "admin" in case only
EmailTok == {"admin", "Admin", "ADMIN", "user"}

Emails == {<<>>, <<"user", "Admin">>} \cup {<<w>> : w \in EmailTok}

\* String.prototype.toLowerCase, word by word
ToLowerCase(s) ==
  [k \in 1..Len(s) |-> IF s[k] \in {"Admin", "ADMIN"} THEN "admin" ELSE s[k]]

\* emailStr.includes('admin')
IncludesAdminWord(s) == \E k \in 1..Len(s) : s[k] = "admin"

\* a password is given by the number of its upper-case letters, lower-case
\* letters and digits; variant tells apart two passwords of equal numbers
Password(u, l, d, v) == [upper |-> u, lower |-> l, digit |-> d, variant |-> v]

NoPassword == Password(0, 0, 0, 1)

Passwords ==
  {Password(u, l, d, 1) : u \in {0, 1, MaxRun}, l \in {0, 1, MaxRun}, d \in {0, MaxRun}}

ConfirmPasswords == Passwords \cup {Password(p.upper, p.lower, p.digit, 2) : p \in Passwords \ {NoPassword}}

\* password.length
PwLength(p) == p.upper + p.lower + p.digit

\* the user data handed to onLogin
UserData(mail, role, token) == [email |-> mail, role |-> role, token |-> token]

NoUser == UserData(<<>>, "none", <<>>)

\* `demo-token-${Date.now()}`
DemoToken(now) == <<"demo-", "token-", ToString(now)>>

\* idToken.toString() of a session of the identity provider
IdToken == <<"eyJ", "idToken">>

\* token.startsWith('demo-')
StartsWithDemo(token) == token # <<>> /\ token[1] = "demo-"

\* handleDemoLogin without toLowerCase: 'Admin@x' is a standard user
DemoIsAdminCaseSensitive(emailStr) ==
  \/ IncludesAdminWord(emailStr)
  \/ emailStr = <<"admin">>
  \/ emailStr = <<>>

\* handleDemoLogin: the role of the demo user
DemoIsAdmin(emailStr) ==
  \/ IncludesAdminWord(ToLowerCase(emailStr))
  \/ emailStr = <<"admin">>
  \/ emailStr = <<>>

\* handleDemoLogin: the user data it hands to onLogin
DemoUserData(emailStr, now) ==
  UserData(IF emailStr # <<>> THEN emailStr
           ELSE IF DemoIsAdmin(emailStr) THEN <<"admin">> ELSE <<"user">>,
           IF DemoIsAdmin(emailStr) THEN "admin" ELSE "standard",
           DemoToken(now))

\* the checks of handleSubmit, in their order; "" when all of them pass
SubmitError(isRegister, password, confirmPassword) ==
  CASE isRegister /\ password # confirmPassword -> "Passwords do not match"
    [] PwLength(password) < MinPasswordLength -> "Password must be at least 8 characters"
    [] password.upper = 0 -> "Password must contain at least one uppercase letter"
    [] password.lower = 0 -> "Password must contain at least one lowercase letter"
    [] password.digit = 0 -> "Password must contain at least one number"
    [] OTHER -> ""

\* Login as it is mounted
LoginInit ==
  [pc |-> "form", isRegister |-> FALSE, email |-> <<>>, password |-> NoPassword,
   confirmPassword |-> NoPassword, needsConfirmation |-> FALSE, error |-> "",
   loading |-> FALSE, handed |-> NoUser]

(***************************************************************************)
(* The browser: the values of App and of the Dashboard.                    *)
(***************************************************************************)
\* the user data Login can hand to App.handleLogin
Roles == {"admin", "standard"}

Tokens == {<<>>, IdToken, DemoToken(1)}

LoginUsers ==
  {UserData(e, r, t) : e \in {<<"user">>, <<"Admin">>}, r \in Roles, t \in Tokens}

\* the arguments of App.handleLogin: null, user data without an e-mail, and
\* the user data of Login
HandleLoginInputs == {NoUser, UserData(<<>>, "admin", IdToken)} \cup LoginUsers

\* { ...userData, userPoolId, clientId, apiEndpoint }
UserWithConfig(userData) ==
  [email |-> userData.email, role |-> userData.role, token |-> userData.token,
   userPoolId |-> "us-east-2_xyVVCldfd", clientId |-> "2h6j1cjssdt0mcuehh5cdbmut7",
   apiEndpoint |-> "https://kx7ca5ymaf.execute-api.us-east-2.amazonaws.com/prod/"]

\* the keys of a user object in the order of their insertion
UserKeys == <<"email", "role", "token", "userPoolId", "clientId", "apiEndpoint">>

\* JSON.stringify of a user object: its members as key and value, in the
\* order of insertion
Stringify(u) ==
  LET ks == SelectSeq(UserKeys, LAMBDA k : k \in DOMAIN u)
  IN [j \in 1..Len(ks) |-> <<ks[j], u[ks[j]]>>]

\* JSON.parse of the text of an object
Parse(text) ==
  [k \in {text[j][1] : j \in 1..Len(text)} |->
     text[CHOOSE j \in 1..Len(text) : text[j][1] = k][2]]

\* localStorage.getItem('saas-user'): null, or the text stored
NoItem == [has |-> FALSE, value |-> <<>>]

Item(text) == [has |-> TRUE, value |-> text]

\* what an earlier visit can have left in localStorage
StoredItems == {NoItem} \cup {Item(Stringify(UserWithConfig(u))) : u \in LoginUsers}

\* App as it is mounted: useState(null), useState(true); console is the
\* last line App wrote to the console
AppInit == [loading |-> TRUE, user |-> NoUser, storage |-> NoItem, console |-> ""]

\* the two sources of the Dashboard component
Versions == {"Dashboard.tsx", "part_000"}

NoOutcome == [token |-> "none", data |-> "none", images |-> "none"]

\* the Dashboard before it is mounted, and its initial state: the answers
\* of the identity provider and of the API to the running fetchData are
\* kept in outcome, and sent tells whether a request has left the browser
DashInit ==
  [pc |-> "unmounted", version |-> "none", loading |-> TRUE, error |-> Null,
   usingRealApi |-> FALSE, products |-> "empty", images |-> "empty",
   mock |-> "empty", sent |-> FALSE, outcome |-> NoOutcome]

DashMounted(v) == [DashInit EXCEPT !.pc = "mounted", !.version = v]

(***************************************************************************)
(* The handlers, one action per step of an invocation.                     *)
(***************************************************************************)
Kinds == {"dataV1", "dataV2", "images"}

IsData(k) == k \in {"dataV1", "dataV2"}

\* no invocation has started
InitHandler ==
  /\ pc = [i \in Instances |-> "idle"]
  /\ kind = [i \in Instances |-> "none"]
  /\ event = [i \in Instances |-> NoEvent]
  /\ userGroups = [i \in Instances |-> Undefined]
  /\ userEmail = [i \in Instances |-> Undefined]
  /\ userId = [i \in Instances |-> Undefined]
  /\ isAdmin = [i \in Instances |-> FALSE]
  /\ secret = [i \in Instances |-> "none"]
  /\ dbConfig = [i \in Instances |-> NoConfig]
  /\ client = [i \in Instances |-> "null"]
  /\ endCalls = [i \in Instances |-> 0]
  /\ attempts = [i \in Instances |-> 0]
  /\ fetch = [i \in Instances |-> "none"]
  /\ thrown = [i \in Instances |-> "none"]
  /\ table = [i \in Instances |-> NoDatabase]
  /\ listing = [i \in Instances |-> <<>>]
  /\ resp = [i \in Instances |-> NoResponse]
  /\ secretString = [i \in Instances |-> SecretFailed]
  /\ signFailed = [i \in Instances |-> 0]

Init ==
  /\ InitHandler
  /\ env = [i \in Instances |-> DeployedEnv]
  /\ login = LoginInit
  /\ app = AppInit
  /\ dash = DashInit

\* the gateway invokes the function with an event
Invoke(i) ==
  /\ pc[i] = "idle"
  /\ \E k \in Kinds, e \in Events :
       /\ kind' = [kind EXCEPT ![i] = k]
       /\ event' = [event EXCEPT ![i] = e]
  /\ pc' = [pc EXCEPT ![i] = "resolve"]
  /\ UNCHANGED <<userGroups, userEmail, userId, isAdmin, secret, dbConfig, client,
                 endCalls, attempts, fetch, thrown, table, listing, resp,
                 env, secretString, signFailed,
                 login, app, dash>>

\* an access decision kept in a variable of module scope, which every
\* invocation handled by the process reads and writes
ResolveAccessShared(i) ==
  /\ pc[i] = "resolve"
  /\ LET g == UserGroupsOf(event[i])
     IN /\ userGroups' = [userGroups EXCEPT ![i] = g]
        /\ userEmail' = [userEmail EXCEPT ![i] = UserEmailOf(event[i])]
        /\ userId' = [userId EXCEPT ![i] =
                        IF IsData(kind[i]) THEN UserIdOf(event[i]) ELSE Undefined]
        /\ IF HasIncludes(g)
           THEN /\ isAdmin' = [j \in Instances |-> HandlerIsAdmin(g)]
                /\ pc' = [pc EXCEPT ![i] = IF IsData(kind[i]) THEN "getConfig" ELSE "list"]
                /\ UNCHANGED thrown
           ELSE /\ thrown' = [thrown EXCEPT ![i] = "resolve"]
                /\ pc' = [pc EXCEPT ![i] = "catch500"]
                /\ UNCHANGED isAdmin
  /\ UNCHANGED <<kind, event, secret, dbConfig, client, endCalls, attempts, fetch,
                 table, listing, resp,
                 env, secretString, signFailed,
                 login, app, dash>>

\* the first statements of the outer try: the claims and isAdmin; a group
\* claim without an includes method raises a TypeError
ResolveAccess(i) ==
  /\ pc[i] = "resolve"
  /\ LET g == UserGroupsOf(event[i])
     IN /\ userGroups' = [userGroups EXCEPT ![i] = g]
        /\ userEmail' = [userEmail EXCEPT ![i] = UserEmailOf(event[i])]
        /\ userId' = [userId EXCEPT ![i] =
                        IF IsData(kind[i]) THEN UserIdOf(event[i]) ELSE Undefined]
        /\ IF HasIncludes(g)
           THEN /\ isAdmin' = [isAdmin EXCEPT ![i] = HandlerIsAdmin(g)]
                /\ pc' = [pc EXCEPT ![i] = IF IsData(kind[i]) THEN "getConfig" ELSE "list"]
                /\ UNCHANGED thrown
           ELSE /\ thrown' = [thrown EXCEPT ![i] = "resolve"]
                /\ pc' = [pc EXCEPT ![i] = "catch500"]
                /\ UNCHANGED isAdmin
  /\ UNCHANGED <<kind, event, secret, dbConfig, client, endCalls, attempts, fetch,
                 table, listing, resp,
                 env, secretString, signFailed,
                 login, app, dash>>

\* await getDatabaseConfig(), the secret store answering with one of the
\* values of S: the function catches the failure of the secret store
GetConfigFrom(i, S) ==
  /\ pc[i] = "getConfig"
  /\ \E sec \in S :
       /\ secret' = [secret EXCEPT ![i] = IF sec.ok THEN "ok" ELSE "failed"]
       /\ secretString' = [secretString EXCEPT ![i] = sec]
       /\ dbConfig' = [dbConfig EXCEPT ![i] = GetDatabaseConfig(env[i], sec)]
  /\ pc' = [pc EXCEPT ![i] = "connect"]
  /\ UNCHANGED <<kind, event, userGroups, userEmail, userId, isAdmin, client,
                 endCalls, attempts, fetch, thrown, table, listing, resp,
                 env, signFailed,
                 login, app, dash>>

GetConfig(i) == GetConfigFrom(i, Secrets)

\* client = new Client(dbConfig); await client.connect()
Connect(i) ==
  /\ pc[i] = "connect"
  /\ attempts' = [attempts EXCEPT ![i] = @ + 1]
  /\ \E ok \in BOOLEAN :
       IF ok
       THEN /\ client' = [client EXCEPT ![i] = "connected"]
            /\ pc' = [pc EXCEPT ![i] = "query"]
            /\ UNCHANGED <<fetch, thrown>>
       ELSE /\ client' = [client EXCEPT ![i] = "created"]
            /\ fetch' = [fetch EXCEPT ![i] = "failed"]
            /\ thrown' = [thrown EXCEPT ![i] = "connect"]
            /\ pc' = [pc EXCEPT ![i] = "dbCatch"]
  /\ UNCHANGED <<kind, event, userGroups, userEmail, userId, isAdmin, secret,
                 dbConfig, endCalls, table, listing, resp,
                 env, secretString, signFailed,
                 login, app, dash>>

LiveDataBody(k, admin, id, mail, groups, db, now) ==
  IF k = "dataV1" THEN LiveDataBodyV1(admin, id, mail, groups, db, now)
  ELSE LiveDataBodyV2(admin, id, mail, groups, db, now)

\* the queries succeed and the live response is returned from the inner try
QueryOk(i) ==
  /\ pc[i] = "query"
  /\ \E db \in Databases, now \in Times :
       /\ kind[i] = "dataV2" => db.users = <<>>
       /\ table' = [table EXCEPT ![i] = db]
       /\ resp' = [resp EXCEPT ![i] =
            Response(200, HeadersOf(kind[i]),
                     LiveDataBody(kind[i], isAdmin[i], userId[i], userEmail[i],
                                  userGroups[i], db, now))]
  /\ fetch' = [fetch EXCEPT ![i] = "ok"]
  /\ pc' = [pc EXCEPT ![i] = "finally"]
  /\ UNCHANGED <<kind, event, userGroups, userEmail, userId, isAdmin, secret,
                 dbConfig, client, endCalls, attempts, thrown, listing,
                 env, secretString, signFailed,
                 login, app, dash>>

\* a failed query that is tried again on a fresh connection
QueryFailRetries(i) ==
  /\ pc[i] = "query"
  /\ \E q \in {"usersQuery", "productsQuery"} :
       /\ kind[i] = "dataV2" => q = "productsQuery"
       /\ thrown' = [thrown EXCEPT ![i] = q]
  /\ fetch' = [fetch EXCEPT ![i] = "failed"]
  /\ pc' = [pc EXCEPT ![i] = IF attempts[i] < 2 THEN "connect" ELSE "dbCatch"]
  /\ UNCHANGED <<kind, event, userGroups, userEmail, userId, isAdmin, secret,
                 dbConfig, client, endCalls, attempts, table, listing, resp,
                 env, secretString, signFailed,
                 login, app, dash>>

\* reads that are settled one by one: when only the users read rejects, the
\* rows of the products read are returned next to the fallback users
QueryFailPartial(i) ==
  /\ pc[i] = "query"
  /\ \E q \in {"usersQuery", "productsQuery"} :
       /\ kind[i] = "dataV2" => q = "productsQuery"
       /\ thrown' = [thrown EXCEPT ![i] = q]
       /\ IF q = "usersQuery"
          THEN /\ \E db \in Databases, now \in Times :
                    /\ table' = [table EXCEPT ![i] = db]
                    /\ resp' = [resp EXCEPT ![i] =
                         Response(200, HeadersOf(kind[i]),
                           [FallbackDataBodyV1(isAdmin[i], userId[i], userEmail[i],
                                               userGroups[i], now)
                              EXCEPT !.products =
                                IF isAdmin[i] THEN AdminProductsQuery(db.products)
                                ELSE StandardProductsQuery(db.products)])]
               /\ pc' = [pc EXCEPT ![i] = "finally"]
          ELSE /\ pc' = [pc EXCEPT ![i] = "dbCatch"]
               /\ UNCHANGED <<table, resp>>
  /\ fetch' = [fetch EXCEPT ![i] = "failed"]
  /\ UNCHANGED <<kind, event, userGroups, userEmail, userId, isAdmin, secret,
                 dbConfig, client, endCalls, attempts, listing,
                 env, secretString, signFailed,
                 login, app, dash>>

\* a query rejects: Promise.all (index.ts) or the single await (part_001)
\* raises into the inner catch
QueryFail(i) ==
  /\ pc[i] = "query"
  /\ \E q \in {"usersQuery", "productsQuery"} :
       /\ kind[i] = "dataV2" => q = "productsQuery"
       /\ thrown' = [thrown EXCEPT ![i] = q]
  /\ fetch' = [fetch EXCEPT ![i] = "failed"]
  /\ pc' = [pc EXCEPT ![i] = "dbCatch"]
  /\ UNCHANGED <<kind, event, userGroups, userEmail, userId, isAdmin, secret,
                 dbConfig, client, endCalls, attempts, table, listing, resp,
                 env, secretString, signFailed,
                 login, app, dash>>

FallbackDataBody(k, admin, id, mail, groups, now) ==
  IF k = "dataV1" THEN FallbackDataBodyV1(admin, id, mail, groups, now)
  ELSE FallbackDataBodyV2(admin, id, mail, groups, now)

\* an inner catch that rethrows the store error to the outer catch
FallbackRethrows(i) ==
  /\ pc[i] = "dbCatch"
  /\ pc' = [pc EXCEPT ![i] = "catch500"]
  /\ UNCHANGED <<kind, event, userGroups, userEmail, userId, isAdmin, secret,
                 dbConfig, client, endCalls, attempts, fetch, thrown, table, listing,
                 resp,
                 env, secretString, signFailed,
                 login, app, dash>>

\* the inner catch and the fallback response
Fallback(i) ==
  /\ pc[i] = "dbCatch"
  /\ \E now \in Times :
       resp' = [resp EXCEPT ![i] =
         Response(200, HeadersOf(kind[i]),
                  FallbackDataBody(kind[i], isAdmin[i], userId[i], userEmail[i],
                                   userGroups[i], now))]
  /\ pc' = [pc EXCEPT ![i] = "finally"]
  /\ UNCHANGED <<kind, event, userGroups, userEmail, userId, isAdmin, secret,
                 dbConfig, client, endCalls, attempts, fetch, thrown, table, listing,
                 env, secretString, signFailed,
                 login, app, dash>>

\* an outer catch that answers without the CORS headers
Catch500NoCors(i) ==
  /\ pc[i] = "catch500"
  /\ \E now \in Times :
       resp' = [resp EXCEPT ![i] =
         Response(500, [ContentType |-> "application/json"], ErrorBody(kind[i], now))]
  /\ pc' = [pc EXCEPT ![i] = IF IsData(kind[i]) THEN "finally" ELSE "done"]
  /\ UNCHANGED <<kind, event, userGroups, userEmail, userId, isAdmin, secret,
                 dbConfig, client, endCalls, attempts, fetch, thrown, table, listing,
                 env, secretString, signFailed,
                 login, app, dash>>

\* the outer catch
Catch500(i) ==
  /\ pc[i] = "catch500"
  /\ \E now \in Times :
       resp' = [resp EXCEPT ![i] =
         Response(500, HeadersOf(kind[i]), ErrorBody(kind[i], now))]
  /\ pc' = [pc EXCEPT ![i] = IF IsData(kind[i]) THEN "finally" ELSE "done"]
  /\ UNCHANGED <<kind, event, userGroups, userEmail, userId, isAdmin, secret,
                 dbConfig, client, endCalls, attempts, fetch, thrown, table, listing,
                 env, secretString, signFailed,
                 login, app, dash>>

\* a release that is skipped when connect() had failed
FinallyOnlyConnected(i) ==
  /\ pc[i] = "finally"
  /\ IF client[i] = "connected"
     THEN /\ \E ok \in BOOLEAN :
               client' = [client EXCEPT ![i] = IF ok THEN "ended" ELSE "endFailed"]
          /\ endCalls' = [endCalls EXCEPT ![i] = @ + 1]
     ELSE UNCHANGED <<client, endCalls>>
  /\ pc' = [pc EXCEPT ![i] = "done"]
  /\ UNCHANGED <<kind, event, userGroups, userEmail, userId, isAdmin, secret,
                 dbConfig, attempts, fetch, thrown, table, listing, resp,
                 env, secretString, signFailed,
                 login, app, dash>>

\* a release without the inner try: the error of client.end() leaves the
\* handler and replaces the result
FinallyEndErrorEscapes(i) ==
  /\ pc[i] = "finally"
  /\ IF client[i] # "null"
     THEN /\ \E ok \in BOOLEAN :
               /\ client' = [client EXCEPT ![i] = IF ok THEN "ended" ELSE "endFailed"]
               /\ resp' = [resp EXCEPT ![i] = IF ok THEN @ ELSE NoResponse]
          /\ endCalls' = [endCalls EXCEPT ![i] = @ + 1]
     ELSE UNCHANGED <<client, endCalls, resp>>
  /\ pc' = [pc EXCEPT ![i] = "done"]
  /\ UNCHANGED <<kind, event, userGroups, userEmail, userId, isAdmin, secret,
                 dbConfig, attempts, fetch, thrown, table, listing,
                 env, secretString, signFailed,
                 login, app, dash>>

\* finally { if (client) { try { await client.end() } catch (e) { } } }
Finally(i) ==
  /\ pc[i] = "finally"
  /\ IF client[i] # "null"
     THEN /\ \E ok \in BOOLEAN :
               client' = [client EXCEPT ![i] = IF ok THEN "ended" ELSE "endFailed"]
          /\ endCalls' = [endCalls EXCEPT ![i] = @ + 1]
     ELSE UNCHANGED <<client, endCalls>>
  /\ pc' = [pc EXCEPT ![i] = "done"]
  /\ UNCHANGED <<kind, event, userGroups, userEmail, userId, isAdmin, secret,
                 dbConfig, attempts, fetch, thrown, table, listing, resp,
                 env, secretString, signFailed,
                 login, app, dash>>

\* await s3Client.send(listCommand) resolves
ListOk(i) ==
  /\ pc[i] = "list"
  /\ \E l \in Listings : listing' = [listing EXCEPT ![i] = l]
  /\ attempts' = [attempts EXCEPT ![i] = @ + 1]
  /\ pc' = [pc EXCEPT ![i] = "sign"]
  /\ UNCHANGED <<kind, event, userGroups, userEmail, userId, isAdmin, secret,
                 dbConfig, client, endCalls, fetch, thrown, table, resp,
                 env, secretString, signFailed,
                 login, app, dash>>

\* await s3Client.send(listCommand) rejects
ListFail(i) ==
  /\ pc[i] = "list"
  /\ attempts' = [attempts EXCEPT ![i] = @ + 1]
  /\ fetch' = [fetch EXCEPT ![i] = "failed"]
  /\ thrown' = [thrown EXCEPT ![i] = "list"]
  /\ pc' = [pc EXCEPT ![i] = "s3Catch"]
  /\ UNCHANGED <<kind, event, userGroups, userEmail, userId, isAdmin, secret,
                 dbConfig, client, endCalls, table, listing, resp,
                 env, secretString, signFailed,
                 login, app, dash>>

\* every getSignedUrl resolves and the live response is returned
SignOk(i) ==
  /\ pc[i] = "sign"
  /\ \E now \in Times :
       resp' = [resp EXCEPT ![i] =
         Response(200, corsHeaders,
                  LiveImagesBody(isAdmin[i], userEmail[i], userGroups[i],
                                 listing[i], now))]
  /\ fetch' = [fetch EXCEPT ![i] = "ok"]
  /\ pc' = [pc EXCEPT ![i] = "done"]
  /\ UNCHANGED <<kind, event, userGroups, userEmail, userId, isAdmin, secret,
                 dbConfig, client, endCalls, attempts, thrown, table, listing,
                 env, secretString, signFailed,
                 login, app, dash>>

\* a handler that slices before it signs: the URL of an object beyond the
\* first three of a Standard caller is never requested, so its failure
\* goes unnoticed and the live response is returned
SignFailSlicedFirst(i) ==
  /\ pc[i] = "sign"
  /\ \E k \in 1..Len(ListedObjects(listing[i])) :
       /\ signFailed' = [signFailed EXCEPT ![i] = k]
       /\ IF ~isAdmin[i] /\ k > StandardImages
          THEN /\ \E now \in Times :
                    resp' = [resp EXCEPT ![i] =
                      Response(200, corsHeaders,
                               LiveImagesBody(isAdmin[i], userEmail[i], userGroups[i],
                                              listing[i], now))]
               /\ fetch' = [fetch EXCEPT ![i] = "ok"]
               /\ pc' = [pc EXCEPT ![i] = "done"]
               /\ UNCHANGED thrown
          ELSE /\ fetch' = [fetch EXCEPT ![i] = "failed"]
               /\ thrown' = [thrown EXCEPT ![i] = "sign"]
               /\ pc' = [pc EXCEPT ![i] = "s3Catch"]
               /\ UNCHANGED resp
  /\ UNCHANGED <<kind, event, userGroups, userEmail, userId, isAdmin, secret,
                 dbConfig, client, endCalls, attempts, table, listing,
                 env, secretString,
                 login, app, dash>>

\* the getSignedUrl of the k-th listed object rejects: Promise.all raises
\* into the inner catch, whatever the position of the object
SignFail(i) ==
  /\ pc[i] = "sign"
  /\ \E k \in 1..Len(ListedObjects(listing[i])) :
       signFailed' = [signFailed EXCEPT ![i] = k]
  /\ fetch' = [fetch EXCEPT ![i] = "failed"]
  /\ thrown' = [thrown EXCEPT ![i] = "sign"]
  /\ pc' = [pc EXCEPT ![i] = "s3Catch"]
  /\ UNCHANGED <<kind, event, userGroups, userEmail, userId, isAdmin, secret,
                 dbConfig, client, endCalls, attempts, table, listing, resp,
                 env, secretString,
                 login, app, dash>>

\* an inner catch of the images handler that rethrows to the outer catch
S3FallbackRethrows(i) ==
  /\ pc[i] = "s3Catch"
  /\ resp' = [resp EXCEPT ![i] =
       Response(500, corsHeaders, ErrorBody(kind[i], 1))]
  /\ pc' = [pc EXCEPT ![i] = "done"]
  /\ UNCHANGED <<kind, event, userGroups, userEmail, userId, isAdmin, secret,
                 dbConfig, client, endCalls, attempts, fetch, thrown, table, listing,
                 env, secretString, signFailed,
                 login, app, dash>>

\* the inner catch of the images handler
S3Fallback(i) ==
  /\ pc[i] = "s3Catch"
  /\ resp' = [resp EXCEPT ![i] =
       Response(200, corsHeaders, FallbackImagesBody(isAdmin[i], thrown[i]))]
  /\ pc' = [pc EXCEPT ![i] = "done"]
  /\ UNCHANGED <<kind, event, userGroups, userEmail, userId, isAdmin, secret,
                 dbConfig, client, endCalls, attempts, fetch, thrown, table, listing,
                 env, secretString, signFailed,
                 login, app, dash>>

\* the result is delivered and the instance is free for the next request
Deliver(i) ==
  /\ pc[i] = "done"
  /\ pc' = [pc EXCEPT ![i] = "idle"]
  /\ kind' = [kind EXCEPT ![i] = "none"]
  /\ event' = [event EXCEPT ![i] = NoEvent]
  /\ userGroups' = [userGroups EXCEPT ![i] = Undefined]
  /\ userEmail' = [userEmail EXCEPT ![i] = Undefined]
  /\ userId' = [userId EXCEPT ![i] = Undefined]
  /\ isAdmin' = [isAdmin EXCEPT ![i] = FALSE]
  /\ secret' = [secret EXCEPT ![i] = "none"]
  /\ dbConfig' = [dbConfig EXCEPT ![i] = NoConfig]
  /\ client' = [client EXCEPT ![i] = "null"]
  /\ endCalls' = [endCalls EXCEPT ![i] = 0]
  /\ attempts' = [attempts EXCEPT ![i] = 0]
  /\ fetch' = [fetch EXCEPT ![i] = "none"]
  /\ thrown' = [thrown EXCEPT ![i] = "none"]
  /\ table' = [table EXCEPT ![i] = NoDatabase]
  /\ listing' = [listing EXCEPT ![i] = <<>>]
  /\ resp' = [resp EXCEPT ![i] = NoResponse]
  /\ secretString' = [secretString EXCEPT ![i] = SecretFailed]
  /\ signFailed' = [signFailed EXCEPT ![i] = 0]
  /\ UNCHANGED <<env, login, app, dash>>

\* the steps of the handler itself
HandlerStep(i) ==
  \/ ResolveAccess(i)
  \/ GetConfig(i)
  \/ Connect(i)
  \/ QueryOk(i)
  \/ QueryFail(i)
  \/ Fallback(i)
  \/ Catch500(i)
  \/ Finally(i)
  \/ ListOk(i)
  \/ ListFail(i)
  \/ SignOk(i)
  \/ SignFail(i)
  \/ S3Fallback(i)

Next == \E i \in SeqInstances : Invoke(i) \/ HandlerStep(i) \/ Deliver(i)

Spec == Init /\ [][Next]_vars

\* the runtime runs an invoked handler to its end
FairSpec == Spec /\ \A i \in SeqInstances : WF_vars(HandlerStep(i))

(***************************************************************************)
(* Two invocations in flight at once: the platform runs one handler per     *)
(* request, and their steps interleave.  The inputs are a selection of     *)
(* those of Spec.                                                          *)
(***************************************************************************)
ConcEvents ==
  {e \in Events :
     \/ e.shape = "noClaims"
     \/ e.shape = "claims" /\ e.groups \in {Str(<<"Admin">>), Str(<<"s">>), Num(42)}}

ConcDatabases ==
  {db \in Databases :
     /\ db.users = <<>>
     /\ Len(db.products) = StandardLimit + 1
     /\ \A j \in 1..Len(db.products) : db.products[j].is_active}

ConcListings == {l \in Listings : Len(l) = 1}

ConcInvoke(i) == Invoke(i) /\ event'[i] \in ConcEvents

ConcQueryOk(i) == QueryOk(i) /\ table'[i] \in ConcDatabases

ConcListOk(i) == ListOk(i) /\ listing'[i] \in ConcListings

ConcStep(i) ==
  \/ ResolveAccess(i)
  \/ GetConfig(i)
  \/ Connect(i)
  \/ ConcQueryOk(i)
  \/ QueryFail(i)
  \/ Fallback(i)
  \/ Catch500(i)
  \/ Finally(i)
  \/ ConcListOk(i)
  \/ ListFail(i)
  \/ SignOk(i)
  \/ SignFail(i)
  \/ S3Fallback(i)

ConcNext == \E i \in Instances : ConcInvoke(i) \/ ConcStep(i) \/ Deliver(i)

ConcSpec == Init /\ [][ConcNext]_vars

(***************************************************************************)
(* getDatabaseConfig under every environment and every secret: an          *)
(* invocation of a /data handler up to the resolved configuration.         *)
(***************************************************************************)
ConfigInit ==
  /\ login = LoginInit /\ app = AppInit /\ dash = DashInit
  /\ InitHandler
  /\ env \in {[i \in Instances |-> IF i \in SeqInstances THEN e ELSE DeployedEnv] :
                e \in Envs}

ConfigInvoke(i) == Invoke(i) /\ IsData(kind'[i]) /\ event'[i] \in ConcEvents

GetConfigAny(i) == GetConfigFrom(i, SecretValues)

ConfigNext ==
  \E i \in SeqInstances : ConfigInvoke(i) \/ ResolveAccess(i) \/ GetConfigAny(i)

ConfigSpec == ConfigInit /\ [][ConfigNext]_vars

(***************************************************************************)
(* The browser: Login.  The form is edited, submitted and answered by the  *)
(* identity provider; the handlers leave the state of the functions alone. *)
(***************************************************************************)
backVars ==
  <<pc, kind, event, userGroups, userEmail, userId, isAdmin, secret, dbConfig,
    client, endCalls, attempts, fetch, thrown, table, listing, resp, env,
    secretString, signFailed>>

\* the form is shown and its inputs are enabled
FormEnabled ==
  login.pc = "form" /\ ~login.needsConfirmation /\ ~login.loading

\* onChange of the three inputs, and the toggle button
TypeEmail ==
  /\ FormEnabled
  /\ \E e \in Emails : login' = [login EXCEPT !.email = e]
  /\ UNCHANGED <<backVars, app, dash>>

TypePassword ==
  /\ FormEnabled
  /\ \E p \in Passwords : login' = [login EXCEPT !.password = p]
  /\ UNCHANGED <<backVars, app, dash>>

TypeConfirmPassword ==
  /\ FormEnabled /\ login.isRegister
  /\ \E p \in ConfirmPasswords : login' = [login EXCEPT !.confirmPassword = p]
  /\ UNCHANGED <<backVars, app, dash>>

ToggleRegister ==
  /\ FormEnabled
  /\ login' = [login EXCEPT !.isRegister = ~login.isRegister, !.error = ""]
  /\ UNCHANGED <<backVars, app, dash>>

\* the browser submits the form only when the required inputs are filled
\* and the passwords have minLength characters
FormValid ==
  /\ login.email # <<>>
  /\ PwLength(login.password) >= MinPasswordLength
  /\ login.isRegister => PwLength(login.confirmPassword) >= MinPasswordLength

\* a handleSubmit that does not look for a digit
HandleSubmitNoDigitCheck ==
  /\ FormEnabled /\ FormValid
  /\ LET err == SubmitError(login.isRegister, login.password, login.confirmPassword)
     IN IF err # "" /\ err # "Password must contain at least one number"
        THEN login' = [login EXCEPT !.error = err]
        ELSE login' = [login EXCEPT !.error = "", !.loading = TRUE,
                         !.pc = IF login.isRegister THEN "signUp" ELSE "signIn"]
  /\ UNCHANGED <<backVars, app, dash>>

\* handleSubmit up to the call of signUp or signIn
HandleSubmit ==
  /\ FormEnabled /\ FormValid
  /\ LET err == SubmitError(login.isRegister, login.password, login.confirmPassword)
     IN IF err # ""
        THEN login' = [login EXCEPT !.error = err]
        ELSE login' = [login EXCEPT !.error = "", !.loading = TRUE,
                         !.pc = IF login.isRegister THEN "signUp" ELSE "signIn"]
  /\ UNCHANGED <<backVars, app, dash>>

\* handleDemoLogin, called with the state st of the component
HandleDemoLogin(st, now) ==
  [st EXCEPT !.handed = DemoUserData(st.email, now), !.pc = "demoLogin",
             !.loading = FALSE]

SignInOutcomes ==
  {"tokens", "newPassword", "confirmSignUp", "noTokens", "notAuthorized", "sessionFailed"}

\* handleLogin after signIn and fetchAuthSession have settled
SignInResult ==
  /\ login.pc = "signIn"
  /\ \E o \in SignInOutcomes, g \in ConcEvents, now \in Times :
       login' =
         CASE o = "tokens" ->
                [login EXCEPT !.handed = UserData(login.email,
                                           IF LoginIsAdmin(AuthContext(g).groups)
                                           THEN "admin" ELSE "standard", IdToken),
                              !.pc = "loggedIn", !.loading = FALSE]
           [] o = "newPassword" ->
                HandleDemoLogin([login EXCEPT !.error =
                                   "Please change your temporary password on first login"],
                                now)
           [] o = "confirmSignUp" ->
                [login EXCEPT !.needsConfirmation = TRUE, !.pc = "form", !.loading = FALSE,
                              !.error = "Please confirm your email address"]
           [] o = "noTokens" -> HandleDemoLogin(login, now)
           [] o = "notAuthorized" ->
                [login EXCEPT !.error = "Invalid email or password", !.pc = "form",
                              !.loading = FALSE]
           [] OTHER ->
                HandleDemoLogin([login EXCEPT !.error =
                                   "First login detected. Using demo mode for now."], now)
  /\ UNCHANGED <<backVars, app, dash>>

\* handleRegister after signUp has settled
SignUpResult ==
  /\ login.pc = "signUp"
  /\ \E o \in {"confirmSignUp", "complete", "usernameExists"} :
       login' =
         CASE o = "confirmSignUp" ->
                [login EXCEPT !.needsConfirmation = TRUE, !.pc = "form", !.loading = FALSE,
                   !.error = "Registration successful! Please check your email for confirmation code."]
           [] o = "complete" -> [login EXCEPT !.pc = "signIn"]
           [] OTHER ->
                [login EXCEPT !.error = "User already exists. Please login instead.",
                              !.pc = "form", !.loading = FALSE]
  /\ UNCHANGED <<backVars, app, dash>>

\* the confirmation screen: handleConfirmSignUp, which signs in after the
\* code was accepted, handleResendCode and the demo button
HandleConfirmSignUp ==
  /\ login.pc = "form" /\ login.needsConfirmation /\ ~login.loading
  /\ \E ok \in BOOLEAN :
       login' = IF ok
                THEN [login EXCEPT !.needsConfirmation = FALSE, !.error = "",
                                   !.pc = "signIn"]
                ELSE [login EXCEPT !.error = "Confirmation failed"]
  /\ UNCHANGED <<backVars, app, dash>>

HandleResendCode ==
  /\ login.pc = "form" /\ login.needsConfirmation /\ ~login.loading
  /\ \E ok \in BOOLEAN :
       login' = [login EXCEPT !.error = IF ok THEN "Confirmation code resent to your email"
                                         ELSE "Failed to resend code"]
  /\ UNCHANGED <<backVars, app, dash>>

DemoButton ==
  /\ login.pc = "form" /\ login.needsConfirmation /\ ~login.loading
  /\ \E now \in Times : login' = HandleDemoLogin(login, now)
  /\ UNCHANGED <<backVars, app, dash>>

\* the user logs out of the dashboard and Login is mounted again
Remount ==
  /\ login.pc \in {"demoLogin", "loggedIn"}
  /\ login' = LoginInit
  /\ UNCHANGED <<backVars, app, dash>>

LoginNext ==
  \/ TypeEmail
  \/ TypePassword
  \/ TypeConfirmPassword
  \/ ToggleRegister
  \/ HandleSubmit
  \/ SignInResult
  \/ SignUpResult
  \/ HandleConfirmSignUp
  \/ HandleResendCode
  \/ DemoButton
  \/ Remount

LoginSpec == Init /\ [][LoginNext]_vars

(***************************************************************************)
(* The browser: App and the Dashboard.  App shows Login while it has no    *)
(* user and the Dashboard while it has one.                                *)
(***************************************************************************)
\* useEffect of App: the user of an earlier visit is read from localStorage
AppInitialLoad ==
  /\ app.loading
  /\ LET savedUser == app.storage
     IN IF savedUser.has /\ savedUser.value # <<>>
        THEN \E v \in Versions :
               /\ app' = [app EXCEPT !.user = Parse(savedUser.value), !.loading = FALSE]
               /\ dash' = DashMounted(v)
        ELSE /\ app' = [app EXCEPT !.loading = FALSE]
             /\ dash' = dash
  /\ UNCHANGED <<backVars, login>>

\* App.handleLogin
AppHandleLogin(a, userData) ==
  IF userData = NoUser \/ userData.email = <<>>
  THEN [a EXCEPT !.console = "ERROR: Invalid userData received"]
  ELSE LET userWithConfig == UserWithConfig(userData)
       IN [a EXCEPT !.user = userWithConfig,
                    !.console = "Saving to localStorage...",
                    !.storage = Item(Stringify(userWithConfig))]

\* Login, shown while App has no user, calls onLogin
OnLogin ==
  /\ ~app.loading /\ app.user = NoUser
  /\ \E userData \in HandleLoginInputs, v \in Versions :
       /\ app' = AppHandleLogin(app, userData)
       /\ dash' = IF app'.user # NoUser THEN DashMounted(v) ELSE dash
  /\ UNCHANGED <<backVars, login>>

\* a logout that leaves the entry in localStorage
AppHandleLogoutKeepsItem(a) == [a EXCEPT !.user = NoUser]

\* App.handleLogout
AppHandleLogout(a) == [a EXCEPT !.user = NoUser, !.storage = NoItem]

\* fetchData up to its first await
FetchData(d, user) ==
  [d EXCEPT !.loading = TRUE, !.error = Null, !.outcome = NoOutcome,
            !.pc = IF user.token # <<>> /\ ~StartsWithDemo(user.token)
                   THEN "getAuthToken" ELSE "fetchMockData"]

\* useEffect of the Dashboard
UseEffect ==
  /\ dash.pc = "mounted"
  /\ dash' = FetchData(dash, app.user)
  /\ UNCHANGED <<backVars, login, app>>

\* the refresh button, shown when the Dashboard is not loading
HandleRefresh ==
  /\ dash.pc = "idle" /\ dash.version = "Dashboard.tsx"
  /\ dash' = FetchData(dash, app.user)
  /\ UNCHANGED <<backVars, login, app>>

\* the catch of fetchData up to the await of fetchMockData
CatchFetch(d, message) ==
  [d EXCEPT !.error = IF Truthy(message) THEN message
                      ELSE Str(<<"Failed to fetch data. Using demo mode.">>),
            !.pc = "fetchMockData"]

\* getAuthToken settles; with a token the two requests are sent
GetAuthToken ==
  /\ dash.pc = "getAuthToken"
  /\ \E o \in {"token", "noSession", "rejected"} :
       dash' =
         CASE o = "token" ->
                [dash EXCEPT !.outcome.token = "ok", !.sent = TRUE, !.pc = "allSettled"]
           [] o = "noSession" ->
                CatchFetch([dash EXCEPT !.outcome.token = "failed"],
                           Str(<<"No authentication session found">>))
           [] OTHER ->
                CatchFetch([dash EXCEPT !.outcome.token = "failed"], Str(<<>>))
  /\ UNCHANGED <<backVars, login, app>>

\* a fetchRealData in which a rejected request ends fetchData at once
AllSettledUncaught ==
  /\ dash.pc = "allSettled"
  /\ \E dataRes \in {"fulfilled", "rejected"}, imagesRes \in {"fulfilled", "rejected"} :
       LET d == [dash EXCEPT !.outcome.data = dataRes, !.outcome.images = imagesRes]
       IN dash' =
            IF dataRes = "fulfilled" /\ imagesRes = "fulfilled"
            THEN [d EXCEPT !.products = "live", !.images = "live",
                           !.usingRealApi = TRUE, !.loading = FALSE, !.pc = "idle"]
            ELSE [d EXCEPT !.pc = "idle"]
  /\ UNCHANGED <<backVars, login, app>>

\* Promise.allSettled of the two requests settles: the rest of fetchRealData
\* and, when both are fulfilled, the finally of fetchData
AllSettled ==
  /\ dash.pc = "allSettled"
  /\ \E dataRes \in {"fulfilled", "rejected"}, imagesRes \in {"fulfilled", "rejected"} :
       LET d == [dash EXCEPT !.outcome.data = dataRes, !.outcome.images = imagesRes]
       IN dash' =
            CASE dataRes = "rejected" ->
                   CatchFetch(d, Str(<<"Failed to fetch products">>))
              [] imagesRes = "rejected" ->
                   CatchFetch([d EXCEPT !.products = "live"],
                              Str(<<"Failed to fetch images">>))
              [] OTHER ->
                   [d EXCEPT !.products = "live", !.images = "live",
                             !.usingRealApi = TRUE, !.loading = FALSE, !.pc = "idle"]
  /\ UNCHANGED <<backVars, login, app>>

\* a fetchMockData without setUsingRealApi(false)
FetchMockDataKeepsFlag ==
  /\ dash.pc = "fetchMockData"
  /\ dash' = IF dash.version = "Dashboard.tsx"
             THEN [dash EXCEPT !.mock = IF app.user.role = "admin" THEN "admin"
                                        ELSE "standard",
                               !.loading = FALSE, !.pc = "idle"]
             ELSE [dash EXCEPT !.products = "empty", !.images = "empty",
                               !.loading = FALSE, !.pc = "idle"]
  /\ UNCHANGED <<backVars, login, app>>

\* the timer of fetchMockData fires: the mock data, and the finally of
\* fetchData
FetchMockData ==
  /\ dash.pc = "fetchMockData"
  /\ dash' = IF dash.version = "Dashboard.tsx"
             THEN [dash EXCEPT !.mock = IF app.user.role = "admin" THEN "admin"
                                        ELSE "standard",
                               !.usingRealApi = FALSE,
                               !.loading = FALSE, !.pc = "idle"]
             ELSE [dash EXCEPT !.products = "empty", !.images = "empty",
                               !.usingRealApi = FALSE,
                               !.loading = FALSE, !.pc = "idle"]
  /\ UNCHANGED <<backVars, login, app>>

\* Dashboard.handleLogout: signOut for a user of the identity provider,
\* whatever its outcome, and then onLogout
DashHandleLogout ==
  /\ dash.pc = "idle"
  /\ app' = AppHandleLogout(app)
  /\ dash' = DashInit
  /\ UNCHANGED <<backVars, login>>

BrowserInit ==
  /\ InitHandler
  /\ env = [i \in Instances |-> DeployedEnv]
  /\ login = LoginInit
  /\ dash = DashInit
  /\ app \in {[AppInit EXCEPT !.storage = st] : st \in StoredItems}

BrowserNext ==
  \/ AppInitialLoad
  \/ OnLogin
  \/ UseEffect
  \/ HandleRefresh
  \/ GetAuthToken
  \/ AllSettled
  \/ FetchMockData
  \/ DashHandleLogout

BrowserSpec == BrowserInit /\ [][BrowserNext]_vars

\* every promise fetchData awaits settles
FairBrowserSpec ==
  /\ BrowserSpec
  /\ WF_vars(UseEffect) /\ WF_vars(GetAuthToken)
  /\ WF_vars(AllSettled) /\ WF_vars(FetchMockData)

(***************************************************************************)
(* Properties.                                                             *)
(***************************************************************************)
Done(i) == pc[i] = "done"

\* the data array of a 200 response
DataOf(r) == IF "products" \in DOMAIN r.body THEN r.body.products ELSE r.body.images

\* C1: in the /data handlers every connection object created during an
\* invocation has had client.end() called on it, once, by the time the
\* result is delivered, whatever the exit path.
C1_ConnectionReleased ==
  \A i \in Instances :
    (Done(i) /\ IsData(kind[i])) =>
       /\ endCalls[i] = attempts[i]
       /\ client[i] \in {"null", "ended", "endFailed"}
       /\ attempts[i] > 0 => client[i] # "null"

C1_Witness ==
  \E i \in Instances :
    /\ Done(i) /\ kind[i] = "dataV1"
    /\ thrown[i] = "connect" /\ endCalls[i] = 1
    /\ resp[i].statusCode = 200

\* C2 as stated: whenever a backing store call fails (the secret, the
\* connect or a query for /data, the listing or a signing for /images) the
\* response has status 200 and a non-empty data array.
C2_Original ==
  \A i \in Instances :
    (Done(i) /\ (secret[i] = "failed" \/ fetch[i] = "failed")) =>
       /\ resp[i].statusCode = 200
       /\ DataOf(resp[i]) # <<>>

\* C2 as amended: whenever the connect or a query fails (/data) or the
\* listing or a signing fails (/images) the response has status 200 and a
\* non-empty data array; a failure of the secret store alone is absorbed by
\* getDatabaseConfig and still ends in status 200, the data array being
\* non-empty unless the response is a live one.
C2_StoreFailureGives200 ==
  \A i \in Instances :
    /\ (Done(i) /\ fetch[i] = "failed") =>
          /\ resp[i].statusCode = 200
          /\ DataOf(resp[i]) # <<>>
    /\ (Done(i) /\ secret[i] = "failed") =>
          /\ resp[i].statusCode = 200
          /\ DataOf(resp[i]) = <<>> => fetch[i] = "ok"

C2_Witness ==
  \E i \in Instances :
    /\ Done(i) /\ kind[i] = "dataV2" /\ ~isAdmin[i]
    /\ thrown[i] = "productsQuery" /\ secret[i] = "failed"
    /\ Len(DataOf(resp[i])) = 1

ClaimOf(i) == AuthContext(event[i]).groups

\* the access level has been resolved without an error
Resolved(i) == pc[i] \notin {"idle", "resolve", "catch500"} /\ thrown[i] # "resolve"

\* the group names of a claim given as a list or as a comma-separated string
GroupList(g) ==
  IF g.t = "array" THEN g.a
  ELSE LET parts == Split(g.s) IN [k \in 1..Len(parts) |-> Trim(parts[k])]

ExactlyAdmin(g) == \E k \in 1..Len(GroupList(g)) : GroupList(g)[k] = <<"Admin">>

\* C4 as stated: for a group claim given as a string, a comma-separated
\* string or a list, the handlers and the login code resolve Admin exactly
\* when the normalized list of group names has an element equal to "Admin".
C4_Original ==
  \A i \in Instances :
    (Resolved(i) /\ ClaimOf(i).t \in {"string", "array"}) =>
       /\ isAdmin[i] <=> ExactlyAdmin(ClaimOf(i))
       /\ LoginIsAdmin(ClaimOf(i)) <=> ExactlyAdmin(ClaimOf(i))

\* C5 as stated: with absent or malformed identity claims each handler
\* resolves Standard and goes on to the fetch step; it never ends in a 500
\* response.
C5_Original ==
  \A i \in Instances :
    (Done(i) /\ ClaimOf(i).t \notin {"string", "array"}) =>
       /\ ~isAdmin[i]
       /\ attempts[i] = 1
       /\ resp[i].statusCode # 500

\* C6: a handler returns status 500 only when an exception was raised
\* outside the fetch/fallback try path (here: while the access level is
\* resolved, before any fetch); an invocation whose primary fetch succeeded,
\* or failed and was replaced by fallback data, returns status 200.
C6_Status500OnlyOutsideFetch ==
  \A i \in Instances :
    Done(i) =>
       /\ resp[i].statusCode \in {200, 500}
       /\ resp[i].statusCode = 500 =>
            (thrown[i] = "resolve" /\ fetch[i] = "none" /\ attempts[i] = 0)
       /\ fetch[i] \in {"ok", "failed"} => resp[i].statusCode = 200

C6_Witness ==
  \E i \in Instances :
    /\ Done(i) /\ kind[i] = "images"
    /\ resp[i].statusCode = 500 /\ thrown[i] = "resolve"

\* the response of a finished invocation is a substituted one
IsFallbackResponse(i) ==
  /\ resp[i].statusCode = 200
  /\ "note" \in DOMAIN resp[i].body.metadata

\* the outcome of a finished invocation, read from its response
Outcomes(i) ==
  {o \in {"live", "fallback", "error500"} :
     \/ o = "error500" /\ resp[i].statusCode = 500
     \/ o = "fallback" /\ IsFallbackResponse(i)
     \/ o = "live" /\ resp[i].statusCode = 200 /\ ~IsFallbackResponse(i)}

C7_Safety ==
  \A i \in Instances :
    /\ attempts[i] <= 1
    /\ attempts[i] > 0 => (Resolved(i) /\ userGroups[i].t \in {"string", "array"})
    /\ pc[i] \in {"dbCatch", "s3Catch"} => (attempts[i] = 1 /\ fetch[i] = "failed")
    /\ resp[i].statusCode # 0 => pc[i] \in {"finally", "done"}
    /\ Done(i) =>
         /\ Cardinality(Outcomes(i)) = 1
         /\ "fallback" \in Outcomes(i) <=> (attempts[i] = 1 /\ fetch[i] = "failed")
         /\ "live" \in Outcomes(i) <=> (attempts[i] = 1 /\ fetch[i] = "ok")
         /\ "error500" \in Outcomes(i) <=> attempts[i] = 0

\* C7: every invocation terminates, in exactly one of the outcomes live
\* response, fallback response and 500 response; the access level is
\* resolved before the primary fetch, the primary fetch is attempted at most
\* once, and the fallback data is produced only after that attempt failed.
C7_TerminatesOnce ==
  /\ []C7_Safety
  /\ \A i \in SeqInstances : (pc[i] = "resolve") ~> (pc[i] = "done")

C7_Witness ==
  \E i \in Instances :
    /\ Done(i) /\ kind[i] = "dataV1" /\ thrown[i] = "usersQuery"
    /\ attempts[i] = 1 /\ Outcomes(i) = {"fallback"}

\* C8: in every 200 response /data returns at most 10 products to an Admin
\* caller and at most 3 to a Standard caller, and /images at most 3 images
\* to a Standard caller, for live and for fallback data.
C8_Truncation ==
  \A i \in Instances :
    (Done(i) /\ resp[i].statusCode = 200) =>
       /\ (IsData(kind[i]) /\ isAdmin[i]) => Len(resp[i].body.products) <= 10
       /\ (IsData(kind[i]) /\ ~isAdmin[i]) => Len(resp[i].body.products) <= 3
       /\ (kind[i] = "images" /\ ~isAdmin[i]) => Len(resp[i].body.images) <= 3

C8_Witness ==
  \E i \in Instances :
    /\ Done(i) /\ kind[i] = "dataV1" /\ isAdmin[i] /\ fetch[i] = "ok"
    /\ Len(SelectSeq(table[i].products, LAMBDA r : r.is_active)) > 10
    /\ Len(resp[i].body.products) = 10

\* the keys of a listing, the prefix marker and the keyless entries removed
ListedKeys(contents) ==
  LET kept == SelectSeq(contents,
                LAMBDA o : "Key" \in DOMAIN o /\ o.Key # <<"products", "">>)
  IN [k \in 1..Len(kept) |-> kept[k].Key]

\* C9: on a live /images response an Admin caller receives every listed
\* object (the prefix marker removed) and a Standard caller the first
\* min(3, n) of the n, in listing order: the Standard result is a prefix of
\* the Admin result for the same listing.
C9_LiveImagesPrefix ==
  \A i \in Instances :
    (Done(i) /\ kind[i] = "images" /\ fetch[i] = "ok") =>
       LET keys == ListedKeys(listing[i])
           images == resp[i].body.images
           adminImages == FilteredImages(
                            LiveImages(listing[i], resp[i].body.metadata.timestamp), TRUE)
       IN /\ Len(images) = (IF isAdmin[i] THEN Len(keys) ELSE Min(3, Len(keys)))
          /\ \A k \in 1..Len(images) :
               images[k].url.key = keys[k] /\ images[k].id = k
          /\ Len(adminImages) = Len(keys)
          /\ images = SubSeq(adminImages, 1, Len(images))

C9_Witness ==
  \E i \in Instances :
    /\ Done(i) /\ kind[i] = "images" /\ fetch[i] = "ok" /\ ~isAdmin[i]
    /\ Len(ListedKeys(listing[i])) > 3
    /\ Len(resp[i].body.images) = 3

\* the fallback dataset the handler of instance i gives an Admin caller
AdminFallback(i) ==
  CASE kind[i] = "dataV1" -> FallbackProductsV1(TRUE)
    [] kind[i] = "dataV2" -> FallbackProductsV2(TRUE, resp[i].body.metadata.timestamp)
    [] OTHER -> getFallbackImages(TRUE)

FallbackDone(i) == Done(i) /\ resp[i].statusCode = 200 /\ fetch[i] = "failed"

\* C10 as stated: in both handlers the fallback data of a Standard caller
\* is the first K records, in order, of the fallback data of an Admin
\* caller, who receives the full list.
C10_Original ==
  \A i \in Instances :
    FallbackDone(i) =>
       LET data == DataOf(resp[i])
       IN /\ Len(data) <= Len(AdminFallback(i))
          /\ \A k \in 1..Len(data) : data[k].id = AdminFallback(i)[k].id
          /\ isAdmin[i] => Len(data) = Len(AdminFallback(i))

\* C10 as amended: in /images the fallback data of a Standard caller is the
\* first 3 records, in order, of the 5 an Admin caller receives; in /data
\* the fallback data of a Standard caller is one record, the second of the
\* 3 an Admin caller receives (same id, name, category and price), so a
\* sub-list and not a prefix; the Admin caller receives the full list.
C10_FallbackSubList ==
  \A i \in Instances :
    FallbackDone(i) =>
       LET data == DataOf(resp[i])
           full == AdminFallback(i)
       IN IF kind[i] = "images"
          THEN /\ Len(full) = 5
               /\ Len(data) = (IF isAdmin[i] THEN 5 ELSE 3)
               /\ \A k \in 1..Len(data) : data[k] = full[k]
          ELSE /\ Len(full) = 3
               /\ Len(data) = (IF isAdmin[i] THEN 3 ELSE 1)
               /\ \A k \in 1..Len(data) :
                    LET m == IF isAdmin[i] THEN k ELSE 2
                    IN /\ data[k].id = full[m].id
                       /\ data[k].name = full[m].name
                       /\ data[k].category = full[m].category
                       /\ data[k].price = full[m].price

C10_Witness ==
  \E i \in Instances :
    /\ FallbackDone(i) /\ kind[i] = "images" /\ ~isAdmin[i]
    /\ thrown[i] = "sign"
    /\ Len(DataOf(resp[i])) = 3

(***************************************************************************)
(* The shape of the bodies (C11, C12) and the headers (C13).                *)
(***************************************************************************)
\* store contents under which the live data array is not empty
RefDatabase ==
  [products |-> [j \in 1..StandardLimit |-> ProductRow(j, 0)],
   users |-> <<UserRow(1, BobEmail, "admin"), UserRow(2, AliceEmail, "standard")>>]

RefListing == <<ObjectAt(1, "object")>>

\* the live body the handler of invocation i builds for the same caller
LiveBodyLike(i) ==
  IF IsData(kind[i])
  THEN LiveDataBody(kind[i], isAdmin[i], userId[i], userEmail[i], userGroups[i],
                    RefDatabase, resp[i].body.metadata.timestamp)
  ELSE LiveImagesBody(isAdmin[i], userEmail[i], userGroups[i], RefListing, 1)

DataKey(k) == IF IsData(k) THEN "products" ELSE "images"

\* the field names of the records of a data array
FieldNames(data) == {DOMAIN data[k] : k \in 1..Len(data)}

\* C11 as stated: for each handler and each access level every record of
\* the fallback dataset has exactly the field names of a record of the live
\* dataset, and the fallback body has the same top-level keys and the same
\* metadata keys as the live body.
C11_Original ==
  \A i \in Instances :
    FallbackDone(i) =>
       LET live == LiveBodyLike(i)
           fb == resp[i].body
       IN /\ FieldNames(fb[DataKey(kind[i])]) = FieldNames(live[DataKey(kind[i])])
          /\ DOMAIN fb = DOMAIN live
          /\ DOMAIN fb.metadata = DOMAIN live.metadata

\* C12 as stated: every 200 body of /data and /images, live or fallback,
\* contains the data array, the user context block with email, role and
\* groups, and the metadata block.
C12_Original ==
  \A i \in Instances :
    (Done(i) /\ resp[i].statusCode = 200) =>
       /\ DataKey(kind[i]) \in DOMAIN resp[i].body
       /\ "metadata" \in DOMAIN resp[i].body
       /\ "user" \in DOMAIN resp[i].body
       /\ {"email", "role", "groups"} \subseteq DOMAIN resp[i].body.user

\* C13: every response a handler returns, on every exit path (200 live, 200
\* fallback, 500), carries the headers Content-Type: application/json and
\* Access-Control-Allow-Origin: *.
C13_Headers ==
  \A i \in Instances :
    resp[i].statusCode # 0 =>
       /\ resp[i].statusCode \in {200, 500}
       /\ {"ContentType", "AllowOrigin"} \subseteq DOMAIN resp[i].headers
       /\ resp[i].headers.ContentType = "application/json"
       /\ resp[i].headers.AllowOrigin = "*"

\* a 500 of index.ts, which writes its headers inline on each exit path
C13_Witness ==
  \E i \in Instances :
    Done(i) /\ kind[i] = "dataV1" /\ resp[i].statusCode = 500

(***************************************************************************)
(* Interleaved invocations (C14).                                          *)
(***************************************************************************)
\* everything one invocation reads or writes
OwnState(i) ==
  <<pc[i], kind[i], event[i], userGroups[i], userEmail[i], userId[i], isAdmin[i],
    secret[i], dbConfig[i], client[i], endCalls[i], attempts[i], fetch[i],
    thrown[i], table[i], listing[i], resp[i], env[i], secretString[i],
    signFailed[i]>>

\* the reading of the clock that a response carries, 0 when it has none
ClockOf(i) ==
  CASE resp[i].statusCode = 500 -> resp[i].body.timestamp
    [] "timestamp" \in DOMAIN resp[i].body.metadata -> resp[i].body.metadata.timestamp
    [] OTHER -> 0

\* two finished invocations with the same event, the same outcomes of their
\* own store calls and the same reading of the clock
SameInputs(j, k) ==
  /\ Done(j) /\ Done(k)
  /\ kind[j] = kind[k] /\ event[j] = event[k]
  /\ secret[j] = secret[k] /\ fetch[j] = fetch[k] /\ thrown[j] = thrown[k]
  /\ table[j] = table[k] /\ listing[j] = listing[k]
  /\ signFailed[j] = signFailed[k] /\ client[j] = client[k]
  /\ ClockOf(j) = ClockOf(k)

\* a step of one invocation leaves everything of the other one as it was
OwnStepOnly ==
  \A j \in Instances : pc'[j] = pc[j] => OwnState(j)' = OwnState(j)

\* status, access level, data, provenance and released connection agree
SameResult(j, k) ==
  /\ resp[j].statusCode = resp[k].statusCode
  /\ isAdmin[j] = isAdmin[k]
  /\ endCalls[j] = endCalls[k]
  /\ resp[j].statusCode = 200 =>
        /\ DataOf(resp[j]) = DataOf(resp[k])
        /\ DOMAIN resp[j].body.metadata = DOMAIN resp[k].body.metadata
        /\ "source" \in DOMAIN resp[j].body.metadata =>
              resp[j].body.metadata.source = resp[k].body.metadata.source

\* C14: two handler invocations that run interleaved share no mutable
\* state: every step changes the state of its own invocation only, and two
\* invocations with the same event and the same outcomes of their own store
\* calls end with the same status, access level, data, provenance and
\* released connection, however their steps were interleaved.
C14_NoSharedState ==
  /\ [][OwnStepOnly]_vars
  /\ [](\A j, k \in Instances : SameInputs(j, k) => SameResult(j, k))

\* both invocations have finished, one live as Admin and one on the
\* fallback as Standard
C14_Witness ==
  /\ Done(1) /\ Done(2)
  /\ kind[1] = kind[2]
  /\ isAdmin[1] /\ fetch[1] = "ok" /\ resp[1].statusCode = 200
  /\ ~isAdmin[2] /\ fetch[2] = "failed" /\ resp[2].statusCode = 200

(***************************************************************************)
(* The Standard caller of an unreachable store (C15).                      *)
(***************************************************************************)
\* the connection to the database, or the listing of the bucket, failed
StoreUnreachable(i) == thrown[i] \in {"connect", "list"}

ConfigResolved(i) == secret[i] # "none"

\* parameter p of the configuration comes from field f of the secret when
\* the secret has it, and from variable v of the environment only when the
\* secret does not
SecretBeforeEnv(i, p, f, v) ==
  IF Truthy(secretString[i][f])
  THEN dbConfig[i][p] = secretString[i][f]
  ELSE Truthy(env[i][v]) => dbConfig[i][p] = env[i][v]

\* C16 as stated: whenever the secret can be read getDatabaseConfig takes
\* host, port, database, user and password from the secret, and uses the
\* environment variable only when the secret value is unavailable; an
\* environment variable never overrides a value present in the secret.
C16_Original ==
  \A i \in Instances :
    (ConfigResolved(i) /\ secretString[i].ok) =>
       /\ SecretBeforeEnv(i, "host", "host", "DB_ENDPOINT")
       /\ SecretBeforeEnv(i, "database", "dbname", "DB_NAME")
       /\ SecretBeforeEnv(i, "user", "username", "DB_USER")
       /\ SecretBeforeEnv(i, "password", "password", "DB_PASSWORD")
       /\ IF Truthy(secretString[i].port)
          THEN dbConfig[i].port = ParseInt(secretString[i].port)
          ELSE Truthy(env[i].DB_PORT) => dbConfig[i].port = ParseInt(env[i].DB_PORT)

\* parameter p comes from variable v of the environment when it is set,
\* otherwise from field f of a readable secret, otherwise it is dflt
EnvBeforeSecret(i, p, f, v, dflt) ==
  /\ Truthy(env[i][v]) => dbConfig[i][p] = env[i][v]
  /\ (~Truthy(env[i][v]) /\ secretString[i].ok) =>
        dbConfig[i][p] = (IF Truthy(secretString[i][f]) \/ dflt = Undefined
                          THEN secretString[i][f] ELSE dflt)
  /\ (~Truthy(env[i][v]) /\ ~secretString[i].ok) =>
        dbConfig[i][p] = (IF dflt = Undefined THEN Str(<<"localhost">>) ELSE dflt)

\* parameter p comes from field f of a readable secret, with dflt when the
\* field is missing; variable v is read only when the secret is unreadable
SecretOnly(i, p, f, v, dflt) ==
  IF secretString[i].ok
  THEN dbConfig[i][p] = (IF Truthy(secretString[i][f]) THEN secretString[i][f] ELSE dflt)
  ELSE dbConfig[i][p] = (IF Truthy(env[i][v]) THEN env[i][v] ELSE dflt)

\* C16, amended: host, port and database come from DB_ENDPOINT, DB_PORT and
\* DB_NAME whenever these are set, also over a value present in the
\* secret, and from the secret (then 5432 and saasdb; localhost when the
\* secret is unreadable) only when they are not set; user and password come
\* from the secret whenever it can be read, with saasadmin and the empty
\* string for a missing field, and from DB_USER and DB_PASSWORD only when
\* the secret cannot be read.
C16_Precedence ==
  \A i \in Instances :
    ConfigResolved(i) =>
       /\ EnvBeforeSecret(i, "host", "host", "DB_ENDPOINT", Undefined)
       /\ EnvBeforeSecret(i, "database", "dbname", "DB_NAME", Str(<<"saasdb">>))
       /\ SecretOnly(i, "user", "username", "DB_USER", Str(<<"saasadmin">>))
       /\ SecretOnly(i, "password", "password", "DB_PASSWORD", Str(<<>>))
       /\ dbConfig[i].port =
            (IF Truthy(env[i].DB_PORT) THEN ParseInt(env[i].DB_PORT)
             ELSE IF secretString[i].ok /\ Truthy(secretString[i].port)
                  THEN ParseInt(secretString[i].port)
                  ELSE 5432)

\* the secret was read and holds a host, and DB_ENDPOINT is set: the
\* configuration has the host of the environment
C16_Witness ==
  \E i \in Instances :
    /\ ConfigResolved(i) /\ secretString[i].ok
    /\ Truthy(secretString[i].host) /\ Truthy(env[i].DB_ENDPOINT)
    /\ dbConfig[i].host = env[i].DB_ENDPOINT
    /\ dbConfig[i].host # secretString[i].host

(***************************************************************************)
(* The fallback dataset as a function of the access level (C17).           *)
(***************************************************************************)
\* two invocations of one handler, with the same access level, that both
\* took the fallback path
BothFallback(j, k) ==
  /\ FallbackDone(j) /\ FallbackDone(k)
  /\ kind[j] = kind[k]
  /\ isAdmin[j] = isAdmin[k]

SameButCreatedAt(d, e) ==
  /\ Len(d) = Len(e)
  /\ \A n \in 1..Len(d) :
       /\ DOMAIN d[n] = DOMAIN e[n]
       /\ \A f \in DOMAIN d[n] \ {"created_at"} : d[n][f] = e[n][f]

TwoReadsDone(i) ==
  /\ Done(i) /\ kind[i] = "dataV1"
  /\ attempts[i] = 1
  /\ thrown[i] \in {"none", "usersQuery", "productsQuery"}

\* the rows of the products read of invocation i
LiveProducts(i) ==
  IF isAdmin[i] THEN AdminProductsQuery(table[i].products)
  ELSE StandardProductsQuery(table[i].products)

\* C18: in the /data handler that issues the users and the products read
\* concurrently the response is live only if both reads succeed; if either
\* read fails the whole response is fallback data, never live rows of one
\* read next to fallback rows of the other, and the connection is still
\* released exactly once.
C18_BothReadsOrFallback ==
  \A i \in Instances :
    TwoReadsDone(i) =>
       LET body == resp[i].body
       IN /\ resp[i].statusCode = 200
          /\ endCalls[i] = 1
          /\ client[i] \in {"ended", "endFailed"}
          /\ ("note" \notin DOMAIN body.metadata) <=> thrown[i] = "none"
          /\ thrown[i] = "none" =>
                /\ fetch[i] = "ok"
                /\ Len(body.products) = Len(LiveProducts(i))
                /\ \A k \in 1..Len(body.products) :
                      /\ "created_at" \in DOMAIN body.products[k]
                      /\ body.products[k].id = LiveProducts(i)[k].id
                /\ isAdmin[i] =>
                      /\ Len(body.users) = Len(table[i].users)
                      /\ \A k \in 1..Len(body.users) :
                            "updated_at" \in DOMAIN body.users[k]
          /\ thrown[i] # "none" =>
                /\ fetch[i] = "failed"
                /\ Len(body.products) = (IF isAdmin[i] THEN 3 ELSE 1)
                /\ \A k \in 1..Len(body.products) :
                      /\ "created_at" \notin DOMAIN body.products[k]
                      /\ body.products[k].id = FallbackProductsV1(isAdmin[i])[k].id
                /\ isAdmin[i] =>
                      /\ Len(body.users) = 2
                      /\ \A k \in 1..Len(body.users) :
                            "updated_at" \notin DOMAIN body.users[k]

\* the users read of an Admin rejected while the connection was open
C18_Witness ==
  \E i \in Instances :
    /\ TwoReadsDone(i) /\ isAdmin[i] /\ thrown[i] = "usersQuery"
    /\ endCalls[i] = 1

(***************************************************************************)
(* The ids of the live images (C19).                                       *)
(***************************************************************************)
\* the positions of a listing that hold an object with a key other than
\* the prefix marker
ImagePositions(contents) ==
  {p \in 1..Len(contents) :
     "Key" \in DOMAIN contents[p] /\ contents[p].Key # <<"products", "">>}

\* C19: on a live /images response no returned image corresponds to the
\* prefix marker key products/ or to an object without a key, and the
\* returned images carry the ids 1..n, consecutive and assigned in listing
\* order after that filtering.
C19_LiveImageIds ==
  \A i \in Instances :
    (Done(i) /\ kind[i] = "images" /\ fetch[i] = "ok") =>
       LET images == resp[i].body.images
           kept == ImagePositions(listing[i])
       IN /\ Len(images) <= Cardinality(kept)
          /\ resp[i].body.metadata.totalImages = Len(images)
          /\ \A k \in 1..Len(images) :
               /\ images[k].id = k
               /\ images[k].url.key # <<"products", "">>
               /\ \E p \in kept :
                     /\ listing[i][p].Key = images[k].url.key
                     /\ Cardinality({q \in kept : q <= p}) = k

\* a listing with the marker, a keyless entry and two objects behind them
C19_Witness ==
  \E i \in Instances :
    /\ Done(i) /\ kind[i] = "images" /\ fetch[i] = "ok"
    /\ Len(listing[i]) = 4
    /\ "Key" \in DOMAIN listing[i][1] /\ listing[i][1].Key = <<"products", "">>
    /\ "Key" \notin DOMAIN listing[i][2]
    /\ Len(resp[i].body.images) = 2

(***************************************************************************)
(* A signing failure (C20).                                                *)
(***************************************************************************)
\* the images of a body that were signed from the bucket
SignedImages(body) ==
  {k \in 1..Len(body.images) : body.images[k].category = "Products"}

\* C20: in the /images handler a failure while signing the URL of any
\* single listed object makes the whole response fallback data: a response
\* never mixes live signed images with fallback images, and this holds for
\* a Standard caller even when the failing object lies beyond the first 3
\* that would have been returned.
C20_SignFailureIsFallback ==
  \A i \in Instances :
    (Done(i) /\ kind[i] = "images" /\ resp[i].statusCode = 200) =>
       LET body == resp[i].body
       IN /\ signFailed[i] # 0 =>
               /\ body.metadata.source = "fallback"
               /\ SignedImages(body) = {}
               /\ Len(body.images) = Len(getFallbackImages(isAdmin[i]))
               /\ \A k \in 1..Len(body.images) :
                     body.images[k].name = getFallbackImages(isAdmin[i])[k].name
          /\ SignedImages(body) \in {{}, 1..Len(body.images)}
          /\ (body.metadata.source = "aws-s3") => SignedImages(body) = 1..Len(body.images)

\* a Standard caller, four listed objects, and the signing of the fourth
\* one failed
C20_Witness ==
  \E i \in Instances :
    /\ Done(i) /\ kind[i] = "images" /\ ~isAdmin[i]
    /\ signFailed[i] > StandardImages
    /\ resp[i].statusCode = 200
    /\ resp[i].body.metadata.source = "fallback"

(***************************************************************************)
(* The metadata block and the rest of the body (C21).                      *)
(***************************************************************************)
\* the count the metadata block gives for the data array
CountOf(r) ==
  IF "totalProducts" \in DOMAIN r.body.metadata THEN r.body.metadata.totalProducts
  ELSE r.body.metadata.totalImages

\* C21: in every 200 response the metadata count (totalProducts or
\* totalImages) equals the length of the returned data array and, wherever
\* the fields are present, metadata.isAdmin is true exactly when user.role
\* is admin and exactly when metadata.accessLevel is full.
C21_MetadataConsistent ==
  \A i \in Instances :
    (Done(i) /\ resp[i].statusCode = 200) =>
       LET body == resp[i].body
       IN /\ CountOf(resp[i]) = Len(DataOf(resp[i]))
          /\ "totalUsers" \in DOMAIN body.metadata =>
                body.metadata.totalUsers = Len(body.users)
          /\ "user" \in DOMAIN body =>
                (body.metadata.isAdmin <=> body.user.role = "admin")
          /\ "accessLevel" \in DOMAIN body.metadata =>
                (body.metadata.isAdmin <=> body.metadata.accessLevel = "full")

\* a live /images response to a Standard caller, cut from four objects
C21_Witness ==
  \E i \in Instances :
    /\ Done(i) /\ kind[i] = "images" /\ fetch[i] = "ok" /\ ~isAdmin[i]
    /\ Len(ListedObjects(listing[i])) = 4
    /\ resp[i].body.metadata.totalImages = 3
    /\ resp[i].body.metadata.accessLevel = "limited"

(***************************************************************************)
(* Demo mode (C22).                                                        *)
(***************************************************************************)
\* the e-mail contains the word admin in any case
ContainsAdminAnyCase(mail) ==
  \E k \in 1..Len(mail) : mail[k] \in {"admin", "Admin", "ADMIN"}

\* C22: in demo mode (handleDemoLogin) the user is given the admin role
\* exactly when the entered e-mail contains "admin" (case-insensitive) and
\* the standard role for every other e-mail; the token handed to onLogin
\* always starts with "demo-".
C22_DemoRole ==
  login.pc = "demoLogin" =>
     /\ login.handed.email = login.email
     /\ login.handed.role = (IF ContainsAdminAnyCase(login.email)
                             THEN "admin" ELSE "standard")
     /\ Len(login.handed.token) > 0
     /\ login.handed.token[1] = "demo-"

\* demo mode entered with an e-mail that has the word in capitals
C22_Witness ==
  /\ login.pc = "demoLogin"
  /\ login.email = <<"ADMIN">>
  /\ login.handed.role = "admin"
(***************************************************************************)
(* The Standard response inside the Admin response (C23).                  *)
(***************************************************************************)
\* the data array the handler of invocation i gives an Admin caller from
\* the same store contents, or on the same fallback path
AdminWouldReceive(i) ==
  IF fetch[i] = "ok"
  THEN IF IsData(kind[i]) THEN AdminProductsQuery(table[i].products)
       ELSE FilteredImages(LiveImages(listing[i], resp[i].body.metadata.timestamp), TRUE)
  ELSE AdminFallback(i)

\* record x of a Standard response is record y of an Admin response
SameItem(i, x, y) ==
  IF IsData(kind[i])
  THEN x.id = y.id /\ x.name = y.name /\ x.category = y.category /\ x.price = y.price
  ELSE x = y

ContainedInAdmin(i) ==
  \A k \in 1..Len(DataOf(resp[i])) :
    \E m \in 1..Len(AdminWouldReceive(i)) :
      SameItem(i, DataOf(resp[i])[k], AdminWouldReceive(i)[m])

StandardDone(i) == Done(i) /\ resp[i].statusCode = 200 /\ ~isAdmin[i]

ActiveRows(i) == SelectSeq(table[i].products, LAMBDA r : r.is_active)

\* C23 as stated: for the same backing-store state, or the same fallback
\* path, every product returned by /data and every image returned by
\* /images to a Standard caller is contained in the response an Admin caller
\* would receive.
C23_Original ==
  \A i \in Instances : StandardDone(i) => ContainedInAdmin(i)

\* C23, amended: every image returned by /images to a Standard caller, and
\* every product returned by /data on the fallback path, is contained in the
\* response an Admin caller would receive; a product returned by /data on
\* the live path is an active row of the table, and it is contained in the
\* Admin response whenever the table has at most 10 active rows (with more,
\* the Admin response is cut to the 10 newest and may lack it).
C23_MonotoneUpToLimit ==
  \A i \in Instances :
    StandardDone(i) =>
       IF IsData(kind[i]) /\ fetch[i] = "ok"
       THEN /\ \A k \in 1..Len(resp[i].body.products) :
                 \E m \in 1..Len(ActiveRows(i)) :
                    ActiveRows(i)[m].id = resp[i].body.products[k].id
            /\ Len(ActiveRows(i)) <= AdminLimit => ContainedInAdmin(i)
       ELSE ContainedInAdmin(i)

C23_Witness ==
  \E i \in Instances :
    /\ StandardDone(i) /\ kind[i] = "dataV1" /\ fetch[i] = "ok"
    /\ Len(resp[i].body.products) = StandardLimit
    /\ Len(ActiveRows(i)) = AdminLimit
    /\ ContainedInAdmin(i)

(***************************************************************************)
(* The user rows of a Standard response (C24).                             *)
(***************************************************************************)
\* C24: a response of the /data handler to a caller resolved as Standard
\* never contains the users list nor a user row of an e-mail other than the
\* caller's own, on the live path and on the fallback path; the users list
\* appears only in responses to callers resolved as Admin.
C24_StandardSeesOwnRowOnly ==
  \A i \in Instances :
    (Done(i) /\ IsData(kind[i]) /\ resp[i].statusCode = 200) =>
       LET body == resp[i].body
       IN /\ ~isAdmin[i] =>
               /\ "users" \notin DOMAIN body
               /\ body.user.email = userEmail[i]
               /\ "userProfile" \in DOMAIN body =>
                     body.userProfile.email = userEmail[i]
          /\ "users" \in DOMAIN body => isAdmin[i]

C24_Witness ==
  \E i \in Instances :
    /\ Done(i) /\ kind[i] = "dataV1" /\ ~isAdmin[i] /\ fetch[i] = "ok"
    /\ \E k \in 1..Len(table[i].users) : table[i].users[k].email # userEmail[i]
    /\ \E k \in 1..Len(table[i].users) :
          /\ table[i].users[k].email = userEmail[i]
          /\ resp[i].body.userProfile.id = table[i].users[k].id

(***************************************************************************)
(* The role of the dashboard and the access level of the handlers (C25).   *)
(***************************************************************************)
\* C25 as stated: for every value of the cognito:groups claim the role
\* Login.handleLogin derives equals the access level the handlers derive
\* from the same claim.
C25_Original ==
  \A i \in Instances :
    Resolved(i) => (isAdmin[i] <=> LoginIsAdmin(ClaimOf(i)))

(***************************************************************************)
(* The checks of the Login form (C29).                                     *)
(***************************************************************************)
\* the password has 8 characters, an uppercase letter, a lowercase letter
\* and a digit and, in register mode, equals the confirmation password
PasswordAccepted ==
  /\ PwLength(login.password) >= 8
  /\ login.password.upper > 0 /\ login.password.lower > 0 /\ login.password.digit > 0
  /\ login.isRegister => login.password = login.confirmPassword

\* a step of handleSubmit: the form is enabled and none of its inputs changes
SubmitStep ==
  /\ FormEnabled
  /\ login'.email = login.email /\ login'.password = login.password
  /\ login'.confirmPassword = login.confirmPassword
  /\ login'.isRegister = login.isRegister

\* C29: handleSubmit goes on to signIn or signUp only when the password has
\* at least 8 characters, an uppercase letter, a lowercase letter and a
\* digit and, in register mode, equals the confirmation password; when a
\* check fails an error message is set, no authentication call is made and
\* onLogin is not invoked.
C29_SubmitValidates ==
  [][SubmitStep =>
       /\ login'.pc \in {"signIn", "signUp"} => PasswordAccepted
       /\ ~PasswordAccepted =>
             /\ login'.error # ""
             /\ login'.pc = "form" /\ ~login'.loading
             /\ login'.handed = NoUser]_vars

C29_Witness ==
  /\ login.pc = "form" /\ login.handed = NoUser /\ ~login.loading
  /\ login.error = "Password must contain at least one number"
  /\ login.password.digit = 0

(***************************************************************************)
(* The release of the connection and the response (C30).                   *)
(***************************************************************************)
\* C30: in the /data handler an error raised while the connection is
\* released never changes the response already chosen: the status code and
\* the body delivered are those chosen before the release, whether
\* client.end() succeeds or fails, and the handler still does not throw.
C30_ReleaseKeepsResponse ==
  [][\A i \in Instances :
       (pc[i] = "finally" /\ pc'[i] # "finally") =>
          /\ pc'[i] = "done"
          /\ resp[i].statusCode \in {200, 500}
          /\ resp'[i] = resp[i]]_vars

C30_Witness ==
  \E i \in Instances :
    /\ Done(i) /\ kind[i] = "dataV1" /\ client[i] = "endFailed"
    /\ fetch[i] = "ok" /\ resp[i].statusCode = 200

(***************************************************************************)
(* App: the user and localStorage (C28).                                   *)
(***************************************************************************)
\* C28: in App, after the initial load and after any sequence of handleLogin
\* and handleLogout calls, the user is non-null exactly when localStorage
\* holds a saas-user entry, and that entry is the serialization of the
\* current user; a handleLogin call with missing user data or an empty
\* e-mail leaves the user and localStorage unchanged.
C28_UserMatchesStorage ==
  /\ [](~app.loading =>
          /\ app.user # NoUser <=> app.storage.has
          /\ app.storage.has => app.storage.value = Stringify(app.user))
  /\ [][(app'.console = "ERROR: Invalid userData received" /\ app'.console # app.console)
           => (app'.user = app.user /\ app'.storage = app.storage)]_vars
  /\ [](\A userData \in {NoUser, UserData(<<>>, "admin", IdToken)} :
          /\ AppHandleLogin(app, userData).user = app.user
          /\ AppHandleLogin(app, userData).storage = app.storage)

C28_Witness ==
  /\ ~app.loading /\ app.user # NoUser /\ dash.pc = "idle"
  /\ app.console = "Saving to localStorage..."
  /\ app.storage = Item(Stringify(app.user))
  /\ Parse(app.storage.value) = app.user

(***************************************************************************)
(* The Dashboard: the source of the data shown (C26, C27).                 *)
(***************************************************************************)
\* the running or the last fetchData got fulfilled responses from both
\* /data and /images
BothFulfilled == dash.outcome.data = "fulfilled" /\ dash.outcome.images = "fulfilled"

\* the Dashboard is mounted and no fetchData is running
FetchEnded == dash.pc = "idle"

DemoUser == StartsWithDemo(app.user.token)

\* C26: in the Dashboard, after any sequence of initial loads and refreshes,
\* usingRealApi is true only if the most recent fetchData obtained fulfilled
\* responses from both /data and /images; for a user whose token starts
\* with "demo-" no request to /data or /images is ever sent and usingRealApi
\* is never true.
C26_RealApiOnlyAfterBoth ==
  /\ (FetchEnded /\ dash.usingRealApi) => BothFulfilled
  /\ (dash.pc # "unmounted" /\ DemoUser) =>
        /\ ~dash.sent /\ ~dash.usingRealApi
        /\ dash.pc \notin {"getAuthToken", "allSettled"}
        /\ dash.outcome = NoOutcome

C26_Witness ==
  /\ FetchEnded /\ ~dash.usingRealApi /\ dash.sent
  /\ dash.products = "live"
  /\ dash.outcome.data = "fulfilled" /\ dash.outcome.images = "rejected"
  /\ dash.mock # "empty"

\* the running or the last fetchData failed on its real path
RealFetchFailed ==
  \/ dash.outcome.token = "failed"
  \/ dash.outcome.data = "rejected"
  \/ dash.outcome.images = "rejected"

\* the mock data of the user's role is what the Dashboard shows
MockLoaded ==
  /\ ~dash.usingRealApi
  /\ IF dash.version = "Dashboard.tsx"
     THEN dash.mock = (IF app.user.role = "admin" THEN "admin" ELSE "standard")
     ELSE dash.products = "empty" /\ dash.images = "empty"

\* C27: every call of fetchData eventually ends with loading = false, on
\* the success path and on every failure path; when the real fetch fails
\* (token retrieval, /data or /images) error is set to a non-empty message
\* and the mock data is loaded instead, and a later fetchData that succeeds
\* clears the error.
C27_FetchEnds ==
  /\ (dash.pc \in {"getAuthToken", "allSettled", "fetchMockData"})
        ~> (FetchEnded /\ ~dash.loading)
  /\ [](FetchEnded => ~dash.loading)
  /\ []((FetchEnded /\ RealFetchFailed) =>
          /\ dash.error.t = "string" /\ dash.error.s # <<>>
          /\ MockLoaded)
  /\ []((FetchEnded /\ ~RealFetchFailed) => dash.error = Null)

C27_Witness ==
  /\ FetchEnded /\ ~dash.loading /\ dash.usingRealApi
  /\ dash.error = Null
  /\ dash.mock # "empty"

====
